---------------------------- MODULE Spec2Model ----------------------------
(***************************************************************************)
(* The Phase III chat backend of hackathon-todo: the chat request handler  *)
(* (phase3/backend/main.py), the agent loop (phase3/backend/agent.py) and  *)
(* the task tools (phase3/backend/tools.py), over the shared database.     *)
(*                                                                         *)
(* Every database statement or commit of the code is one atomic step.  A   *)
(* request is served by one worker process (one event loop); chat() never  *)
(* yields inside a worker, because run_agent awaits nothing and calls the  *)
(* model with the synchronous client, so two chat requests interleave only *)
(* when they are served by different workers against the same database.    *)
(* The read endpoints list_conversations and get_conversation are plain    *)
(* functions, which a process runs on its thread pool: they are one step   *)
(* each, at any time.  A row's timestamps are readings of a clock that     *)
(* never runs backwards; in the store specification two rows may get the   *)
(* same one.                                                               *)
(***************************************************************************)
EXTENDS Integers, Sequences, FiniteSets, TLC

\* ------------------------------------------------------------- inputs
Users == {"u1", "u2"}
Requests == {"r1", "r2"}
Workers == {"w1", "w2"}
\* The deployments: the one process of uvicorn.run(app) at main.py:241-244, or
\* one process per worker behind the same port and database.
Deployments == {{"w1"}, Workers}
\* request.message values
Texts == {"hi"}
\* request.conversation_id values; 0 stands for None (both are falsy at main.py:113)
ConvIdInputs == {0, 1}
\* the content of a final reply of the model
Replies == {"ok"}
SYSTEM_PROMPT == "system prompt"

\* Tool calls requested in one turn, at most (the agent specification).
MaxToolCalls == 2
\* Tool calls requested in one turn, at most (the chat specification).
MaxChatToolCalls == 1
\* Tool calls requested in one turn, at most (the store specification).
MaxStoreToolCalls == 1
\* Tool calls requested in one turn, at most (the parsing specification).
MaxParseCalls == 3
\* Tool calls requested in one turn, at most (the loop specification).
MaxLoopCalls == 10
\* The largest iteration bound the design names for the agent loop ("5-10
\* rounds"); agent.py configures none.
LoopBound == 10

VARIABLES
    users,          \* table users: the set of user ids
    conversations,  \* table conversations: row i has id i
    db_messages,    \* table messages, in insertion order
    tasks,          \* table tasks: a set of rows
    task_seq,       \* the last id the tasks table has assigned
    req,            \* each request's handler: position and local variables
    pool,           \* the worker processes the deployment runs
    clock,          \* the clock the rows' timestamps are read from
    aux,            \* history variables, read by the properties only
    manager,        \* the TaskManager of the console application (src/src/models.py)
    outcome         \* the last call of the TodoController, after the toggle before it

vars == <<users, conversations, db_messages, tasks, task_seq, req, pool, clock, aux,
          manager, outcome>>

\* ------------------------------------------------------------- json
\* json.dumps and json.loads on the tools' results: a string that wraps the value.
dumps(v) == [json |-> v]
loads(s) == s.json
\* A text that json.loads cannot parse (json.JSONDecodeError), and the test for it.
Garbled == [text |-> "{"]
Parses(s) == "json" \in DOMAIN s

\* A tool call's arguments: the keys present and their values.
NoArgs == [has |-> {}, title |-> "", description |-> "", task_id |-> 0, status |-> ""]
WithTitle(a, t) == [a EXCEPT !.has = @ \cup {"title"}, !.title = t]
WithDescription(a, d) == [a EXCEPT !.has = @ \cup {"description"}, !.description = d]
WithTaskId(a, i) == [a EXCEPT !.has = @ \cup {"task_id"}, !.task_id = i]
WithStatus(a, s) == [a EXCEPT !.has = @ \cup {"status"}, !.status = s]

\* ------------------------------------------------------------- tools.py
\* What a tool returns: whether it raised, the tasks table after it, its JSON text.
Raised(T, n) == [raised |-> TRUE, tasks |-> T, task_seq |-> n, result |-> dumps([error |-> "raised"])]
Returned(T, n, v) == [raised |-> FALSE, tasks |-> T, task_seq |-> n, result |-> dumps(v)]

\* SelectTask without its user filter.
SelectTaskAnyUser(T, user_id, task_id) == {t \in T : t.id = task_id}

\* select(Task).where(Task.id == task_id, Task.user_id == user_id)
SelectTask(T, user_id, task_id) == {t \in T : t.id = task_id /\ t.user_id = user_id}

\* session.exec(statement).all() of a statement without ORDER BY: the rows in an
\* order of the database's choosing.
RECURSIVE Rows(_)
Rows(S) ==
    IF S = {} THEN {<<>>}
    ELSE UNION {{<<t>> \o rest : rest \in Rows(S \ {t})} : t \in S}

\* add_task whose row gets the last id the table has given out.
add_task_last_id(T, n, user_id, args) ==
    IF "title" \notin args.has THEN Raised(T, n)
    ELSE LET task == [id |-> n, user_id |-> user_id, title |-> args.title,
                      description |-> IF "description" \in args.has THEN args.description ELSE "",
                      completed |-> FALSE]
         IN Returned(T \cup {task}, n,
                     [task_id |-> task.id, status |-> "created", title |-> task.title])

add_task(T, n, user_id, args) ==
    IF "title" \notin args.has THEN Raised(T, n)
    ELSE LET task == [id |-> n + 1, user_id |-> user_id, title |-> args.title,
                      description |-> IF "description" \in args.has THEN args.description ELSE "",
                      completed |-> FALSE]
         IN Returned(T \cup {task}, n + 1,
                     [task_id |-> task.id, status |-> "created", title |-> task.title])

\* The statement has no ORDER BY: one outcome for each order the rows can come in.
\* created_at of a task is not part of the model.
list_tasks(T, n, user_id, args) ==
    LET status == IF "status" \in args.has THEN args.status ELSE "all"
        rows == {t \in T : /\ t.user_id = user_id
                           /\ (status = "pending" => ~t.completed)
                           /\ (status = "completed" => t.completed)}
        item(t) == [id |-> t.id, title |-> t.title, description |-> t.description,
                    completed |-> t.completed]
    IN {Returned(T, n, [list |-> [i \in 1..Len(tasks_list) |-> item(tasks_list[i])]]) :
          tasks_list \in Rows(rows)}

\* complete_task that flips the flag instead of setting it.
complete_task_toggling(T, n, user_id, args) ==
    IF "task_id" \notin args.has THEN Raised(T, n)
    ELSE LET found == SelectTask(T, user_id, args.task_id)
         IN IF found = {} THEN Returned(T, n, [error |-> "Task not found"])
            ELSE LET task == CHOOSE t \in found : TRUE
                     done == [task EXCEPT !.completed = ~@]
                 IN Returned((T \ {task}) \cup {done}, n,
                             [task_id |-> task.id, status |-> "completed", title |-> task.title])

\* complete_task without its "if not task" check: task.completed fails on None.
complete_task_unchecked(T, n, user_id, args) ==
    IF "task_id" \notin args.has THEN Raised(T, n)
    ELSE LET found == SelectTask(T, user_id, args.task_id)
         IN IF found = {} THEN Raised(T, n)
            ELSE LET task == CHOOSE t \in found : TRUE
                     done == [task EXCEPT !.completed = TRUE]
                 IN Returned((T \ {task}) \cup {done}, n,
                             [task_id |-> task.id, status |-> "completed", title |-> task.title])

complete_task(T, n, user_id, args) ==
    IF "task_id" \notin args.has THEN Raised(T, n)
    ELSE LET found == SelectTask(T, user_id, args.task_id)
         IN IF found = {} THEN Returned(T, n, [error |-> "Task not found"])
            ELSE LET task == CHOOSE t \in found : TRUE
                     done == [task EXCEPT !.completed = TRUE]
                 IN Returned((T \ {task}) \cup {done}, n,
                             [task_id |-> task.id, status |-> "completed", title |-> task.title])

\* delete_task that deletes the row before it looks for the caller's task.
delete_task_eager(T, n, user_id, args) ==
    IF "task_id" \notin args.has THEN Raised(T, n)
    ELSE LET found == SelectTask(T, user_id, args.task_id)
             kept == {t \in T : t.id # args.task_id}
         IN IF found = {} THEN Returned(kept, n, [error |-> "Task not found"])
            ELSE LET task == CHOOSE t \in found : TRUE
                 IN Returned(kept, n,
                             [task_id |-> args.task_id, status |-> "deleted", title |-> task.title])

delete_task(T, n, user_id, args) ==
    IF "task_id" \notin args.has THEN Raised(T, n)
    ELSE LET found == SelectTask(T, user_id, args.task_id)
         IN IF found = {} THEN Returned(T, n, [error |-> "Task not found"])
            ELSE LET task == CHOOSE t \in found : TRUE
                 IN Returned(T \ {task}, n,
                             [task_id |-> args.task_id, status |-> "deleted", title |-> task.title])

\* update_task that assigns title and description whether the arguments hold them or not.
update_task_overwriting(T, n, user_id, args) ==
    IF "task_id" \notin args.has THEN Raised(T, n)
    ELSE LET found == SelectTask(T, user_id, args.task_id)
         IN IF found = {} THEN Returned(T, n, [error |-> "Task not found"])
            ELSE LET task == CHOOSE t \in found : TRUE
                     t2 == [task EXCEPT !.title = args.title, !.description = args.description]
                 IN Returned((T \ {task}) \cup {t2}, n,
                             [task_id |-> t2.id, status |-> "updated", title |-> t2.title])

update_task(T, n, user_id, args) ==
    IF "task_id" \notin args.has THEN Raised(T, n)
    ELSE LET found == SelectTask(T, user_id, args.task_id)
         IN IF found = {} THEN Returned(T, n, [error |-> "Task not found"])
            ELSE LET task == CHOOSE t \in found : TRUE
                     t1 == IF "title" \in args.has THEN [task EXCEPT !.title = args.title] ELSE task
                     t2 == IF "description" \in args.has
                           THEN [t1 EXCEPT !.description = args.description] ELSE t1
                 IN Returned((T \ {task}) \cup {t2}, n,
                             [task_id |-> t2.id, status |-> "updated", title |-> t2.title])

ToolNames == {"add_task", "list_tasks", "complete_task", "delete_task", "update_task"}

\* execute_tool whose last branch creates a task instead of reporting the name.
execute_tool_fallthrough(T, n, user_id, tool_name, arguments) ==
    CASE tool_name = "list_tasks" -> list_tasks(T, n, user_id, arguments)
      [] tool_name = "complete_task" -> {complete_task(T, n, user_id, arguments)}
      [] tool_name = "delete_task" -> {delete_task(T, n, user_id, arguments)}
      [] tool_name = "update_task" -> {update_task(T, n, user_id, arguments)}
      [] OTHER -> {add_task(T, n, user_id, WithTitle(arguments, tool_name))}

\* The required arguments of each tool's schema (tools.py:29, 47, 64, 81, 106).
Required(tool_name) ==
    CASE tool_name = "add_task" -> {"title"}
      [] tool_name \in {"complete_task", "delete_task", "update_task"} -> {"task_id"}
      [] OTHER -> {}

\* What the tool does when its statements run on the table T with no statement of
\* another session between them: the outcomes it can have (list_tasks has one for
\* each order of its rows).
execute_tool(T, n, user_id, tool_name, arguments) ==
    CASE tool_name = "add_task" -> {add_task(T, n, user_id, arguments)}
      [] tool_name = "list_tasks" -> list_tasks(T, n, user_id, arguments)
      [] tool_name = "complete_task" -> {complete_task(T, n, user_id, arguments)}
      [] tool_name = "delete_task" -> {delete_task(T, n, user_id, arguments)}
      [] tool_name = "update_task" -> {update_task(T, n, user_id, arguments)}
      [] OTHER -> {Returned(T, n, [error |-> "Unknown tool: " \o tool_name])}

\* The session of a tool between its statements.  A tool that found its task has
\* read the row with its SELECT and writes with its commit; the rows of T are what
\* the SELECT read and out is what the tool makes of them.
\* session.add(task) of a new object: the rows the commit inserts
Pending(T, out) == {t2 \in out.tasks : \A t \in T : t.id # t2.id}
\* The attributes the tool assigned: the row as it was read and as it is to be
Dirty(T, out) == {d \in T \X out.tasks : d[1].id = d[2].id /\ d[1] # d[2]}
\* session.delete(task): the rows the commit deletes
Deleted(T, out) == {t \in T : \A t2 \in out.tasks : t2.id # t.id}
\* The results that are built from task.id and task.title after the commit
\* (tools.py:142-146, 193-197, 245-249), which has expired the object: they are
\* read from the row again.  delete_task reads its title before it deletes.
ReadsAfterCommit(result) ==
    /\ "status" \in DOMAIN loads(result)
    /\ loads(result).status # "deleted"
\* The commit: each UPDATE sets the columns the tool changed, and only them, on
\* the row of that id as it is now; each DELETE removes the row of that id.
Flush(T, dirty, deleted) ==
    LET updated(c) ==
            IF \E d \in dirty : d[1].id = c.id
            THEN LET d == CHOOSE x \in dirty : x[1].id = c.id
                 IN [f \in DOMAIN c |-> IF d[1][f] # d[2][f] THEN d[2][f] ELSE c[f]]
            ELSE c
    IN {updated(c) : c \in {x \in T : \A t \in deleted : t.id # x.id}}


\* ------------------------------------------------------------- requests
\* A request that has not arrived yet.
\* What an endpoint returns: "conversations" of list_conversations;
\* "conversation" (no row or one) and "messages" of get_conversation; "tasks" of
\* the Phase II task API.
NoBody == [conversations |-> <<>>, conversation |-> <<>>, messages |-> <<>>, tasks |-> <<>>]

NewRequest ==
    [pc |-> "new", op |-> "", impl |-> "", worker |-> "", user_id |-> "", auth |-> "",
     task_id |-> 0, conversation_id |-> 0,
     message |-> "", conversation |-> 0, messages |-> <<>>, full_messages |-> <<>>,
     todo |-> <<>>, session |-> <<>>, tool_calls_log |-> <<>>, response |-> "", status |-> 0,
     body |-> NoBody]

NewAux ==
    [model_calls |-> 0, only_tools |-> TRUE, requested |-> <<>>, executed |-> <<>>,
     cause |-> "", appended |-> 0, sent |-> <<>>, after |-> {}]

\* A handler is running on its worker from its first statement to its response.
Running(r) == req[r].pc \notin {"absent", "new", "done", "answered", "failed"}
Busy(w) == \E r \in Requests : Running(r) /\ req[r].worker = w

\* raise HTTPException(status_code), or the except clause of chat() (status 500);
\* an exception raised in a tool leaves its with Session(engine) block
Fail(r, status_code) ==
    [req[r] EXCEPT !.pc = "failed", !.status = status_code, !.session = <<>>]

\* The timestamp a row gets as it is built: datetime.utcnow(), the default of
\* created_at and updated_at.  The clock never runs backwards; it has moved on
\* since the last row was built unless the two are built in the same instant.
Stamp == IF clock.same THEN clock.now ELSE clock.now + 1
Stamped == [now |-> Stamp, same |-> FALSE]

\* Insert that writes over the last row of the table.
InsertOverLast(table, row) ==
    IF table = <<>> THEN <<row>> ELSE [table EXCEPT ![Len(table)] = row]

\* session.add(row); session.commit(): the table gets one more row
Insert(table, row) == Append(table, row)

\* Conversation(user_id = user_id): a row of the conversations table; turn names
\* the request that wrote it.
ConversationRow(r) ==
    [id |-> Len(conversations) + 1, user_id |-> req[r].user_id,
     created_at |-> Stamp, updated_at |-> Stamp, turn |-> r]

\* MessageRow with the request's conversation_id in place of conversation.id.
MessageRowOfRequestId(r, role, content) ==
    [id |-> Len(db_messages) + 1, conversation_id |-> req[r].conversation_id,
     user_id |-> req[r].user_id, role |-> role, content |-> content,
     created_at |-> Stamp, turn |-> r]

\* MessageRow that stores the reply of a turn with tool calls under the role tool.
MessageRowOfToolTurn(r, role, content) ==
    [id |-> Len(db_messages) + 1, conversation_id |-> req[r].conversation,
     user_id |-> req[r].user_id,
     role |-> IF role = "assistant" /\ req[r].tool_calls_log # <<>> THEN "tool" ELSE role,
     content |-> content, created_at |-> Stamp, turn |-> r]

\* A row of the messages table; turn names the request that wrote it.
MessageRow(r, role, content) ==
    [id |-> Len(db_messages) + 1, conversation_id |-> req[r].conversation,
     user_id |-> req[r].user_id, role |-> role, content |-> content,
     created_at |-> Stamp, turn |-> r]

\* ORDER BY created_at: every order of the rows in which created_at never
\* decreases; rows of one created_at come in an order the database chooses.
RECURSIVE ByCreatedAt(_)
ByCreatedAt(rows) ==
    IF rows = {} THEN {<<>>}
    ELSE UNION {{<<m>> \o rest : rest \in ByCreatedAt(rows \ {m})} :
                  m \in {x \in rows : \A y \in rows : x.created_at <= y.created_at}}

\* select(Message).where(Message.conversation_id == id).order_by(Message.created_at):
\* the results the statement can have.
History(conversation_id) ==
    ByCreatedAt({db_messages[i] : i \in {j \in DOMAIN db_messages :
                                            db_messages[j].conversation_id = conversation_id}})

\* SelectConversations without its user filter.
SelectConversationsAnyUser(C, user_id) == {C[i] : i \in DOMAIN C}

\* main.py:202-204: select(Conversation).where(Conversation.user_id == user_id)
SelectConversations(C, user_id) == {C[i] : i \in {j \in DOMAIN C : C[j].user_id = user_id}}

\* OwnConversation without the comparison of user_id.
OwnConversationAnyUser(C, user_id, conversation_id) ==
    {C[i] : i \in {j \in DOMAIN C : C[j].id = conversation_id}}

\* main.py:220-221: session.get(Conversation, conversation_id), kept when it is
\* a row and the row has this user_id
OwnConversation(C, user_id, conversation_id) ==
    {C[i] : i \in {j \in DOMAIN C : C[j].id = conversation_id /\ C[j].user_id = user_id}}

\* main.py:92-110: the request arrives at a free worker; select(User)
ChatBeginWith(r, texts) ==
    /\ req[r].pc = "new"
    /\ \E w \in pool, u \in Users, c \in ConvIdInputs, text \in texts :
        /\ ~Busy(w)
        /\ req' = [req EXCEPT ![r] =
                     [@ EXCEPT !.op = "chat", !.worker = w, !.user_id = u,
                               !.conversation_id = c,
                               !.message = text,
                               !.pc = IF u \in users THEN "conversation" ELSE "create_user"]]
    /\ aux' = [aux EXCEPT ![r].after = {q \in Requests : req[q].pc \in {"done", "failed"}}]
    /\ UNCHANGED <<users, conversations, db_messages, tasks, task_seq, pool, outcome, manager, clock>>

ChatBegin(r) == ChatBeginWith(r, Texts)

\* main.py:30-32: message is a str, so the request body {"message": ""} is valid
ChatBeginEmpty(r) == ChatBeginWith(r, {""})

\* main.py:96-110: session.add(user); session.commit()
CreateUser(r) ==
    /\ req[r].pc = "create_user"
    /\ IF req[r].user_id \in users
       THEN \* the primary key exists by now: IntegrityError, caught at main.py:187
            /\ req' = [req EXCEPT ![r] = Fail(r, 500)]
            /\ aux' = [aux EXCEPT ![r].cause = "user"]
            /\ UNCHANGED users
       ELSE /\ users' = users \cup {req[r].user_id}
            /\ req' = [req EXCEPT ![r].pc = "conversation"]
            /\ UNCHANGED aux
    /\ UNCHANGED <<conversations, db_messages, tasks, task_seq, pool, outcome, manager, clock>>

\* main.py:112-130: get or create the conversation
GetOrCreateConversation(r) ==
    /\ req[r].pc = "conversation"
    /\ IF req[r].conversation_id # 0
       THEN LET found == OwnConversation(conversations, req[r].user_id,
                                         req[r].conversation_id)
            IN /\ IF found = {}
                  THEN /\ req' = [req EXCEPT ![r] = Fail(r, 404)]
                       /\ aux' = [aux EXCEPT ![r].cause = "conversation"]
                  ELSE /\ req' = [req EXCEPT ![r].pc = "history",
                                             ![r].conversation = req[r].conversation_id]
                       /\ UNCHANGED aux
               /\ UNCHANGED <<conversations, clock>>
       ELSE /\ conversations' = Insert(conversations, ConversationRow(r))
            /\ clock' = Stamped
            /\ req' = [req EXCEPT ![r].pc = "history",
                                  ![r].conversation = Len(conversations) + 1]
            /\ UNCHANGED aux
    /\ UNCHANGED <<users, db_messages, tasks, task_seq, pool, outcome, manager>>

\* main.py:132-146: fetch the history and build the message array
FetchHistory(r) ==
    /\ req[r].pc = "history"
    /\ \E history \in History(req[r].conversation) :
        LET messages == [i \in 1..Len(history) |->
                           [role |-> history[i].role, content |-> history[i].content]]
        IN req' = [req EXCEPT ![r].pc = "store_user",
                              ![r].messages =
                                  Append(messages, [role |-> "user", content |-> req[r].message])]
    /\ UNCHANGED <<users, conversations, db_messages, tasks, task_seq, pool, outcome, manager, clock, aux>>

\* main.py:148-156: store the user message
StoreUserMessage(r) ==
    /\ req[r].pc = "store_user"
    /\ db_messages' = Insert(db_messages, MessageRow(r, "user", req[r].message))
    /\ req' = [req EXCEPT ![r].pc = "agent"]
    /\ clock' = Stamped
    /\ UNCHANGED <<users, conversations, tasks, task_seq, pool, outcome, manager, aux>>

\* ------------------------------------------------------------- read endpoints
\* ORDER BY updated_at DESC: every order of the rows in which updated_at never
\* increases; rows of one updated_at come in an order the database chooses.
RECURSIVE ByUpdatedAtDesc(_)
ByUpdatedAtDesc(rows) ==
    IF rows = {} THEN {<<>>}
    ELSE UNION {{<<c>> \o rest : rest \in ByUpdatedAtDesc(rows \ {c})} :
                  c \in {x \in rows : \A y \in rows : x.updated_at >= y.updated_at}}

\* main.py:197-211: GET /api/{user_id}/conversations.  The handler is a plain def:
\* its process hands it to a thread of its pool, where its statement runs at any
\* time of a chat turn that has taken the event loop since.
list_conversations(r) ==
    /\ req[r].pc = "new"
    /\ \E w \in pool, u \in Users :
        /\ \E rows \in ByUpdatedAtDesc(SelectConversations(conversations, u)) :
            req' = [req EXCEPT ![r] =
                      [@ EXCEPT !.op = "list_conversations", !.worker = w, !.user_id = u,
                                !.pc = "answered", !.status = 200,
                                !.body = [NoBody EXCEPT !.conversations = rows]]]
    /\ aux' = [aux EXCEPT ![r].appended = Len(db_messages)]
    /\ UNCHANGED <<users, conversations, db_messages, tasks, task_seq, pool, outcome, manager, clock>>

\* main.py:214-238: GET /api/{user_id}/conversations/{conversation_id}, a plain
\* def as well.  The handler reads the conversation and then its messages; the
\* step is the second statement, as no statement changes or deletes a conversation.
get_conversation(r) ==
    /\ req[r].pc = "new"
    /\ \E w \in pool, u \in Users, c \in ConvIdInputs :
        /\ LET conversation == OwnConversation(conversations, u, c)
               asked == [req[r] EXCEPT !.op = "get_conversation", !.worker = w,
                                       !.user_id = u, !.conversation_id = c]
           IN IF conversation = {}
              THEN req' = [req EXCEPT ![r] = [asked EXCEPT !.pc = "failed", !.status = 404]]
              ELSE \E messages \in History(c) :
                     req' = [req EXCEPT ![r] =
                               [asked EXCEPT !.pc = "answered", !.status = 200,
                                             !.body = [NoBody EXCEPT
                                                         !.conversation =
                                                             <<CHOOSE x \in conversation : TRUE>>,
                                                         !.messages = messages]]]
    /\ UNCHANGED <<users, conversations, db_messages, tasks, task_seq, pool, outcome, manager, clock, aux>>

\* ------------------------------------------------------------- agent.py
\* AssistantEntry that drops the tool calls the model requested.
AssistantEntryPlain(tool_calls) == [role |-> "assistant", content |-> ""]

\* agent.py:52-66: the assistant entry that carries the requested tool calls
AssistantEntry(tool_calls) ==
    [role |-> "assistant", content |-> "", tool_calls |-> tool_calls]

\* ToolEntry that carries no id of its call.
ToolEntryUntagged(tool_call, result) ==
    [role |-> "tool", tool_call_id |-> 0, content |-> result]

\* agent.py:77-81: the tool entry, tagged with the id of its call
ToolEntry(tool_call, result) ==
    [role |-> "tool", tool_call_id |-> tool_call.id, content |-> result]

\* LogEntry that keeps the JSON text of the result instead of parsing it.
LogEntryUnparsed(function_name, function_args, result) ==
    [tool |-> function_name, arguments |-> function_args, result |-> result]

\* agent.py:83-87: the entry of the tool-call log
LogEntry(function_name, function_args, result) ==
    [tool |-> function_name, arguments |-> function_args, result |-> loads(result)]

\* OnModelError of an agent that swallows the exception and returns no text.
OnModelErrorSwallowed(r, transcript) ==
    [req[r] EXCEPT !.pc = "store_assistant", !.response = "", !.full_messages = transcript]

\* agent.py:39-44, 90-95 and main.py:187-194: run_agent catches nothing, so an
\* exception of the API call (or a reply it cannot use) ends the turn with status 500
OnModelError(r, transcript) == [Fail(r, 500) EXCEPT !.full_messages = transcript]

\* tool_call.function.arguments: the text the model wrote for the arguments; it
\* is JSON unless the model garbled it.
Raw(arguments) == IF arguments = Garbled THEN Garbled ELSE dumps(arguments)

\* OnArgumentsError of an agent that skips the call and goes on with the round.
OnArgumentsErrorSkipped(r) ==
    [req[r] EXCEPT !.todo = Tail(@),
                   !.pc = IF Tail(req[r].todo) = <<>> THEN "next_response" ELSE "tools"]

\* agent.py:71 and main.py:187-194: json.loads raises inside the for loop, nothing
\* in run_agent catches it, and chat answers with status 500
OnArgumentsError(r) == Fail(r, 500)

\* client.chat.completions.create(messages = transcript, tools = TOOLS), and what
\* run_agent does with its outcome: the call raises, or the message has no tool
\* calls (agent.py:50, 100-103), or it has some (agent.py:50-66).  The provider
\* gives every call of a turn an id of its own.
Create(r, transcript, Calls, Cap) ==
    \/ /\ req' = [req EXCEPT ![r] = OnModelError(r, transcript)]
       /\ aux' = [aux EXCEPT ![r].model_calls = @ + 1, ![r].only_tools = FALSE,
                             ![r].cause = "model", ![r].sent = Append(@, transcript)]
    \/ \E content \in Replies :
        /\ req' = [req EXCEPT ![r].pc = "store_assistant", ![r].response = content,
                              ![r].full_messages = transcript]
        /\ aux' = [aux EXCEPT ![r].model_calls = @ + 1, ![r].only_tools = FALSE,
                              ![r].sent = Append(@, transcript)]
    \/ \E n \in 1..(Cap - Len(aux[r].requested)) : \E seq \in [1..n -> Calls] :
        LET tool_calls == [i \in 1..n |->
                             [id |-> Len(aux[r].requested) + i, name |-> seq[i].name,
                              arguments |-> Raw(seq[i].arguments)]]
        IN /\ req' = [req EXCEPT ![r].pc = "tools", ![r].todo = tool_calls,
                                 ![r].full_messages =
                                     Append(transcript, AssistantEntry(tool_calls))]
           /\ aux' = [aux EXCEPT ![r].model_calls = @ + 1,
                                 ![r].requested = @ \o tool_calls,
                                 ![r].sent = Append(@, transcript)]

\* main.py:159-161 and agent.py:34-47: the system prompt, then the initial API call
RunAgent(r, Calls, Cap) ==
    /\ req[r].pc = "agent"
    /\ Create(r, <<[role |-> "system", content |-> SYSTEM_PROMPT]>> \o req[r].messages,
              Calls, Cap)
    /\ UNCHANGED <<users, conversations, db_messages, tasks, task_seq, pool, outcome, manager, clock>>

\* The entry of aux.executed for the call of the loop that ends now: exists says
\* whether a task of the id asked for was in the table at the tool's first
\* statement, changed whether the tool's commit changed the table.
Ran(r, raised, result, exists, changed) ==
    LET tool_call == Head(req[r].todo)
    IN [id |-> tool_call.id, name |-> tool_call.name, arguments |-> loads(tool_call.arguments),
        raised |-> raised, returned |-> result, exists |-> exists, changed |-> changed]

\* agent.py:79-87: the tool has returned; its result joins the transcript and the log
ToolReturned(r, result) ==
    LET tool_call == Head(req[r].todo)
        rest == Tail(req[r].todo)
    IN [req[r] EXCEPT
          !.full_messages = Append(@, ToolEntry(tool_call, result)),
          !.tool_calls_log = Append(@, LogEntry(tool_call.name, loads(tool_call.arguments), result)),
          !.todo = rest,
          !.session = <<>>,
          !.pc = IF rest = <<>> THEN "next_response" ELSE "tools"]

\* agent.py:69-87: one iteration of the loop over the requested tool calls, up to
\* the end of the tool's first statement: the INSERT and commit of add_task
\* (tools.py:138-139), the SELECT of the other tools (tools.py:161, 183, 207, 231).
\* A tool with no further statement returns in this step.
ExecuteToolCall(r) ==
    /\ req[r].pc = "tools"
    /\ req[r].session = <<>>
    /\ LET tool_call == Head(req[r].todo)
           function_name == tool_call.name
           function_args == loads(tool_call.arguments)
       IN IF ~Parses(tool_call.arguments)
          THEN \* agent.py:71: json.loads raises; caught at main.py:187
               /\ aux' = [aux EXCEPT ![r].cause = "arguments"]
               /\ req' = [req EXCEPT ![r] = OnArgumentsError(r)]
               /\ UNCHANGED <<tasks, task_seq>>
          ELSE
          \E out \in execute_tool(tasks, task_seq, req[r].user_id, function_name, function_args) :
          LET exists == \E t \in tasks : t.id = function_args.task_id
              pending == Pending(tasks, out)
              dirty == Dirty(tasks, out)
              deleted == Deleted(tasks, out)
              session == [step |-> IF dirty = {} /\ deleted = {} THEN "reload" ELSE "commit",
                          dirty |-> dirty, deleted |-> deleted, result |-> out.result,
                          exists |-> exists, changed |-> pending # {}]
          IN IF out.raised
             THEN \* KeyError of args["title"] or args["task_id"]
                  /\ aux' = [aux EXCEPT ![r].executed = Append(@, Ran(r, TRUE, out.result, exists, FALSE)),
                                        ![r].cause = "tool"]
                  /\ req' = [req EXCEPT ![r] = Fail(r, 500)]
                  /\ UNCHANGED <<tasks, task_seq>>
             ELSE IF pending = {} /\ dirty = {} /\ deleted = {} /\ ~ReadsAfterCommit(out.result)
             THEN \* list_tasks, "Task not found", "Unknown tool"
                  /\ aux' = [aux EXCEPT ![r].executed = Append(@, Ran(r, FALSE, out.result, exists, FALSE))]
                  /\ req' = [req EXCEPT ![r] = ToolReturned(r, out.result)]
                  /\ UNCHANGED <<tasks, task_seq>>
             ELSE /\ tasks' = tasks \cup pending
                  /\ task_seq' = out.task_seq
                  /\ req' = [req EXCEPT ![r].session = <<session>>]
                  /\ UNCHANGED aux
    /\ UNCHANGED <<users, conversations, db_messages, pool, outcome, manager, clock>>

\* tools.py:190, 214, 242: session.commit() of a tool that found its task.
\* The commit of an update of a row that is gone raises StaleDataError (UPDATE ...
\* WHERE tasks.id = :id matched no row); a DELETE that matches no row only warns.
\* delete_task returns after it (tools.py:217-221).
CommitToolCall(r) ==
    /\ req[r].pc = "tools"
    /\ req[r].session # <<>>
    /\ LET session == req[r].session[1]
           flushed == Flush(tasks, session.dirty, session.deleted)
       IN /\ session.step = "commit"
          /\ IF \E d \in session.dirty : \A c \in tasks : c.id # d[1].id
             THEN /\ aux' = [aux EXCEPT
                               ![r].executed = Append(@, Ran(r, TRUE, Raised(tasks, task_seq).result,
                                                             session.exists, FALSE)),
                               ![r].cause = "tool"]
                  /\ req' = [req EXCEPT ![r] = Fail(r, 500)]
                  /\ UNCHANGED tasks
             ELSE /\ tasks' = flushed
                  /\ IF ReadsAfterCommit(session.result)
                     THEN /\ req' = [req EXCEPT ![r].session =
                                       <<[session EXCEPT !.step = "reload",
                                                         !.changed = flushed # tasks]>>]
                          /\ UNCHANGED aux
                     ELSE /\ aux' = [aux EXCEPT ![r].executed =
                                       Append(@, Ran(r, FALSE, session.result, session.exists,
                                                     flushed # tasks))]
                          /\ req' = [req EXCEPT ![r] = ToolReturned(r, session.result)]
    /\ UNCHANGED <<users, conversations, db_messages, task_seq, pool, outcome, manager, clock>>

\* tools.py:140, 193-197, 245-249: session.refresh(task) of add_task, task.id and
\* task.title of complete_task and update_task after the commit: the row is read
\* again by its id.  A row that is gone raises (InvalidRequestError,
\* ObjectDeletedError).
ReloadToolCall(r) ==
    /\ req[r].pc = "tools"
    /\ req[r].session # <<>>
    /\ LET session == req[r].session[1]
           found == {c \in tasks : c.id = loads(session.result).task_id}
           task == CHOOSE c \in found : TRUE
           result == dumps([loads(session.result) EXCEPT !.title = task.title])
       IN /\ session.step = "reload"
          /\ IF found = {}
             THEN /\ aux' = [aux EXCEPT
                               ![r].executed = Append(@, Ran(r, TRUE, Raised(tasks, task_seq).result,
                                                             session.exists, session.changed)),
                               ![r].cause = "tool"]
                  /\ req' = [req EXCEPT ![r] = Fail(r, 500)]
             ELSE /\ aux' = [aux EXCEPT ![r].executed =
                               Append(@, Ran(r, FALSE, result, session.exists, session.changed))]
                  /\ req' = [req EXCEPT ![r] = ToolReturned(r, result)]
    /\ UNCHANGED <<users, conversations, db_messages, tasks, task_seq, pool, outcome, manager, clock>>

\* agent.py:89-97: the next API call, after the tool calls of a round
NextResponse(r, Calls, Cap) ==
    /\ req[r].pc = "next_response"
    /\ Create(r, req[r].full_messages, Calls, Cap)
    /\ UNCHANGED <<users, conversations, db_messages, tasks, task_seq, pool, outcome, manager, clock>>

\* main.py:165-183: store the assistant response and return it
StoreAssistantMessage(r) ==
    /\ req[r].pc = "store_assistant"
    /\ db_messages' = Insert(db_messages, MessageRow(r, "assistant", req[r].response))
    /\ req' = [req EXCEPT ![r].pc = "done", ![r].status = 200]
    /\ clock' = Stamped
    /\ UNCHANGED <<users, conversations, tasks, task_seq, pool, outcome, manager, aux>>

\* ------------------------------------------------------------- tool calls
Call(name, arguments) == [name |-> name, arguments |-> arguments]
Title == "milk"
TaskIdArgs == {1, 2}

\* What the model may request in the chat specification: add a task, complete
\* task 1, or a call of add_task whose arguments are not JSON.
ChatCalls ==
    {Call("add_task", WithTitle(NoArgs, Title)),
     Call("complete_task", WithTaskId(NoArgs, 1)),
     Call("add_task", Garbled)}

\* What the model may request in the agent specification: every tool, with and
\* without its required arguments, on task ids of the caller, of another user
\* and of nobody, and a tool that is not registered.
AgentCalls ==
    {Call("add_task", WithTitle(NoArgs, Title)),
     Call("add_task", WithDescription(WithTitle(NoArgs, Title), "2l")),
     Call("add_task", NoArgs),
     Call("send_email", NoArgs)}
    \cup {Call("list_tasks", a) :
            a \in {NoArgs} \cup {WithStatus(NoArgs, s) : s \in {"pending", "completed", "done"}}}
    \cup {Call(name, a) :
            name \in {"complete_task", "delete_task"},
            a \in {NoArgs} \cup {WithTaskId(NoArgs, i) : i \in TaskIdArgs}}
    \cup {Call("update_task", a) :
            a \in {NoArgs, WithTaskId(NoArgs, 1),
                   WithDescription(WithTaskId(NoArgs, 1), "2l")}
                  \cup {WithTitle(WithTaskId(NoArgs, i), "eggs") : i \in TaskIdArgs}}

\* What the model may request in the parsing specification: the calls of the
\* chat specification, in longer rounds.
ParseCalls == ChatCalls

\* A model that only ever lists the tasks.
LoopCalls == {Call("list_tasks", NoArgs)}

\* ------------------------------------------------------------- Phase II task API
\* phase2/backend/main.py (the app) and phase2/backend/tasks.py (the router) both
\* serve the six task endpoints over the tasks table; impl names the one that
\* serves a request.  A handler is one step for each round trip to the database:
\* its SELECT (the INSERT and commit of create_task), its commit, its refresh.
Impls == {"main", "tasks"}
\* The user the bearer token names; "" stands for no valid token.
AuthUsers == Users \cup {""}
\* The request body of PUT: the fields that are not None.
NoUpdate == [has |-> {}, title |-> "", description |-> "", completed |-> FALSE]
Updates ==
    {NoUpdate,
     [NoUpdate EXCEPT !.has = {"title"}, !.title = "eggs"],
     [NoUpdate EXCEPT !.has = {"title"}, !.title = ""],
     [NoUpdate EXCEPT !.has = {"description"}, !.description = "2l"],
     [NoUpdate EXCEPT !.has = {"completed"}, !.completed = TRUE]}

\* verify_user_access that accepts every authenticated user.
verify_user_access_any(user_id_from_path, auth_user) == TRUE

\* auth.py:70-80 (tasks.py:56, 77, 105, 124, 159, 180): FALSE stands for the
\* HTTPException with status 403
verify_user_access(user_id_from_path, auth_user) == auth_user = user_id_from_path

\* main.py:106-107 (tasks.py:108-109): the task of this id, when it is a task of
\* the user of the path
OwnTask(T, user_id, task_id) == {t \in T : t.id = task_id /\ t.user_id = user_id}

\* The request as it arrives.
Asked(r, op, impl, u, a, i) ==
    [req[r] EXCEPT !.op = op, !.impl = impl, !.user_id = u, !.auth = a, !.task_id = i]
\* The answers the request can get before the handler's own work, 0 to go on.
\* Without a valid token: tasks.py answers 401 (get_current_user_id, tasks.py:33-46);
\* main.py answers 401 to a bad token (verify_jwt_token, auth.py:17-68) and, to a
\* request with no bearer header, what HTTPBearer (auth.py:11) answers before
\* verify_jwt_token runs: 403 or 401, by the FastAPI release (none is pinned).
\* With the token of another user: 403.
Denied(impl, u, a) ==
    IF a = "" THEN (IF impl = "main" THEN {401, 403} ELSE {401})
    ELSE IF ~verify_user_access(u, a) THEN {403}
    ELSE {0}
Refused(q, status_code) == [q EXCEPT !.pc = "failed", !.status = status_code]
Served(q, rows) ==
    [q EXCEPT !.pc = "answered", !.status = 200, !.body = [NoBody EXCEPT !.tasks = rows]]
\* The responses to a handler that returns rows.  TaskResponse of tasks.py has
\* id: str (tasks.py:23-30) and the rows have an int id (models.py:25): a response
\* of tasks.py that carries a task is coerced by pydantic 1 and fails its
\* validation under pydantic 2 (none is pinned), which is a 500 after the
\* handler's work and its commit.
Responses(q, rows) ==
    {Served(q, rows)} \cup (IF q.impl = "tasks" /\ rows # <<>> THEN {Refused(q, 500)} ELSE {})
\* The handler has read its task and assigned its fields: session.add(task) and
\* session.commit() are next.  updated marks the handlers of tasks.py, which
\* assign task.updated_at (tasks.py:144, 190), so that their commit always
\* sends an UPDATE.
Assigned(q, task, to_be, updated) ==
    [q EXCEPT !.pc = "commit",
              !.session = <<[id |-> task.id,
                             dirty |-> IF to_be = task THEN {} ELSE {<<task, to_be>>},
                             deleted |-> {}, updated |-> updated]>>]

\* main.py:45-70, tasks.py:48-68: GET /api/{user_id}/tasks
api_get_tasks(r) ==
    /\ req[r].pc = "new"
    /\ \E impl \in Impls, u \in Users, a \in AuthUsers, status \in {"all", "pending", "completed"} :
        LET q == Asked(r, "get_tasks", impl, u, a, 0)
            rows == {t \in tasks : /\ t.user_id = u
                                   /\ (status = "pending" => ~t.completed)
                                   /\ (status = "completed" => t.completed)}
        IN \E denied \in Denied(impl, u, a), tasks_list \in Rows(rows) :
           \E response \in Responses(q, tasks_list) :
               req' = [req EXCEPT ![r] = IF denied # 0 THEN Refused(q, denied) ELSE response]
    /\ UNCHANGED <<users, conversations, db_messages, tasks, task_seq, pool, outcome, manager, clock, aux>>

\* main.py:72-94, tasks.py:70-96: POST /api/{user_id}/tasks.  tasks.user_id is a
\* foreign key to users.id (models.py:26): for a path user with no row in users
\* the INSERT raises IntegrityError, which no handler catches (500); the id the
\* sequence gave the row is spent, as PostgreSQL does not give it again.
api_create_task(r) ==
    /\ req[r].pc = "new"
    /\ \E impl \in Impls, u \in Users, a \in AuthUsers, title \in {"", Title} :
        LET q == Asked(r, "create_task", impl, u, a, 0)
            task == [id |-> task_seq + 1, user_id |-> u, title |-> title, description |-> "",
                     completed |-> FALSE]
        IN \E denied \in Denied(impl, u, a) :
           IF denied # 0
           THEN /\ req' = [req EXCEPT ![r] = Refused(q, denied)]
                /\ UNCHANGED <<tasks, task_seq>>
           ELSE IF impl = "tasks" /\ title = ""
           THEN /\ req' = [req EXCEPT ![r] = Refused(q, 400)]
                /\ UNCHANGED <<tasks, task_seq>>
           ELSE IF u \notin users
           THEN /\ req' = [req EXCEPT ![r] = Refused(q, 500)]
                /\ task_seq' = task_seq + 1
                /\ UNCHANGED tasks
           ELSE /\ tasks' = tasks \cup {task}
                /\ task_seq' = task_seq + 1
                /\ req' = [req EXCEPT ![r] =
                             [q EXCEPT !.pc = "refresh",
                                       !.session = <<[id |-> task.id, dirty |-> {},
                                                      deleted |-> {}, updated |-> FALSE]>>]]
    /\ UNCHANGED <<users, conversations, db_messages, pool, outcome, manager, clock, aux>>

\* main.py:96-110, tasks.py:98-114: GET /api/{user_id}/tasks/{task_id}
api_get_task(r) ==
    /\ req[r].pc = "new"
    /\ \E impl \in Impls, u \in Users, a \in AuthUsers, i \in TaskIdArgs :
        LET q == Asked(r, "get_task", impl, u, a, i)
            found == OwnTask(tasks, u, i)
        IN \E denied \in Denied(impl, u, a), task \in Rows(found) :
           \E response \in Responses(q, task) :
               req' = [req EXCEPT ![r] = IF denied # 0 THEN Refused(q, denied)
                                         ELSE IF found = {} THEN Refused(q, 404)
                                         ELSE response]
    /\ UNCHANGED <<users, conversations, db_messages, tasks, task_seq, pool, outcome, manager, clock, aux>>

\* main.py:112-137, tasks.py:116-150: PUT /api/{user_id}/tasks/{task_id}
api_update_task(r) ==
    /\ req[r].pc = "new"
    /\ \E impl \in Impls, u \in Users, a \in AuthUsers, i \in TaskIdArgs, task_data \in Updates :
        LET q == Asked(r, "update_task", impl, u, a, i)
            found == OwnTask(tasks, u, i)
            task == CHOOSE t \in found : TRUE
            t1 == IF "title" \in task_data.has THEN [task EXCEPT !.title = task_data.title]
                  ELSE task
            t2 == IF "description" \in task_data.has
                  THEN [t1 EXCEPT !.description = task_data.description] ELSE t1
            \* only TaskUpdate of tasks.py has the field completed
            t3 == IF impl = "tasks" /\ "completed" \in task_data.has
                  THEN [t2 EXCEPT !.completed = task_data.completed] ELSE t2
        IN \E denied \in Denied(impl, u, a) :
           IF denied # 0
           THEN req' = [req EXCEPT ![r] = Refused(q, denied)] /\ UNCHANGED tasks
           ELSE IF found = {}
           THEN req' = [req EXCEPT ![r] = Refused(q, 404)] /\ UNCHANGED tasks
           ELSE IF impl = "tasks" /\ "title" \in task_data.has /\ task_data.title = ""
           THEN req' = [req EXCEPT ![r] = Refused(q, 400)] /\ UNCHANGED tasks
           ELSE req' = [req EXCEPT ![r] = Assigned(q, task, t3, impl = "tasks")] /\ UNCHANGED tasks
    /\ UNCHANGED <<users, conversations, db_messages, task_seq, pool, outcome, manager, clock, aux>>

\* main.py:139-156, tasks.py:152-171: DELETE /api/{user_id}/tasks/{task_id}
api_delete_task(r) ==
    /\ req[r].pc = "new"
    /\ \E impl \in Impls, u \in Users, a \in AuthUsers, i \in TaskIdArgs :
        LET q == Asked(r, "delete_task", impl, u, a, i)
            found == OwnTask(tasks, u, i)
        IN \E denied \in Denied(impl, u, a) :
           IF denied # 0
           THEN req' = [req EXCEPT ![r] = Refused(q, denied)] /\ UNCHANGED tasks
           ELSE IF found = {}
           THEN req' = [req EXCEPT ![r] = Refused(q, 404)] /\ UNCHANGED tasks
           ELSE \* session.delete(task): session.commit() is next
                /\ req' = [req EXCEPT ![r] =
                             [q EXCEPT !.pc = "commit",
                                       !.session = <<[id |-> i, dirty |-> {}, deleted |-> found,
                                                      updated |-> FALSE]>>]]
                /\ UNCHANGED tasks
    /\ UNCHANGED <<users, conversations, db_messages, task_seq, pool, outcome, manager, clock, aux>>

\* main.py:158-178, tasks.py:173-196: PATCH /api/{user_id}/tasks/{task_id}/complete
api_toggle_complete(r) ==
    /\ req[r].pc = "new"
    /\ \E impl \in Impls, u \in Users, a \in AuthUsers, i \in TaskIdArgs :
        LET q == Asked(r, "toggle_complete", impl, u, a, i)
            found == OwnTask(tasks, u, i)
            task == CHOOSE t \in found : TRUE
            toggled == [task EXCEPT !.completed = ~task.completed]
        IN \E denied \in Denied(impl, u, a) :
           IF denied # 0
           THEN req' = [req EXCEPT ![r] = Refused(q, denied)] /\ UNCHANGED tasks
           ELSE IF found = {}
           THEN req' = [req EXCEPT ![r] = Refused(q, 404)] /\ UNCHANGED tasks
           ELSE req' = [req EXCEPT ![r] = Assigned(q, task, toggled, impl = "tasks")]
                /\ UNCHANGED tasks
    /\ UNCHANGED <<users, conversations, db_messages, task_seq, pool, outcome, manager, clock, aux>>

\* main.py:133-134, 153-154, 174-175, tasks.py:146-147, 168-169, 192-193:
\* session.add(task) or session.delete(task), then session.commit().  An UPDATE
\* of a row that is gone raises StaleDataError, which is a 500; the handler of
\* main.py that assigned nothing new sends no UPDATE.  delete_task answers after
\* its commit.
api_commit(r) ==
    /\ req[r].pc = "commit"
    /\ LET session == req[r].session[1]
           q == [req[r] EXCEPT !.session = <<>>]
           gone == \A c \in tasks : c.id # session.id
       IN IF (session.dirty # {} \/ session.updated) /\ gone
          THEN req' = [req EXCEPT ![r] = Refused(q, 500)] /\ UNCHANGED tasks
          ELSE /\ tasks' = Flush(tasks, session.dirty, session.deleted)
               /\ req' = [req EXCEPT ![r] = IF session.deleted # {} THEN Served(q, <<>>)
                                             ELSE [req[r] EXCEPT !.pc = "refresh"]]
    /\ UNCHANGED <<users, conversations, db_messages, task_seq, pool, outcome, manager, clock, aux>>

\* main.py:92-94, 135-137, 176-178, tasks.py:94-96, 148-150, 194-196:
\* session.refresh(task); return task.  The row is read again by its id; when it
\* is gone the refresh raises InvalidRequestError, which is a 500.
api_refresh(r) ==
    /\ req[r].pc = "refresh"
    /\ LET session == req[r].session[1]
           q == [req[r] EXCEPT !.session = <<>>]
           found == {c \in tasks : c.id = session.id}
       IN IF found = {}
          THEN req' = [req EXCEPT ![r] = Refused(q, 500)]
          ELSE \E task \in found : \E response \in Responses(q, <<task>>) :
                  req' = [req EXCEPT ![r] = response]
    /\ UNCHANGED <<users, conversations, db_messages, tasks, task_seq, pool, outcome, manager, clock, aux>>

\* ------------------------------------------------------------- console TaskManager
\* src/src/models.py: the in-memory TaskManager of the console application.
\* An Optional argument is <<>> for None and <<v>> for the value v.
None == <<>>
Some(v) == <<v>>
\* A title of 201 characters and a description of 1001 characters.
LongTitle == "title of 201 characters"
LongDescription == "description of 1001 characters"
\* len(s): the model's strings are "", " ", the two long ones and four-letter words.
len(s) ==
    CASE s = "" -> 0
      [] s = " " -> 1
      [] s = LongTitle -> 201
      [] s = LongDescription -> 1001
      [] OTHER -> 4
\* len(s.strip())
len_strip(s) == IF s = " " THEN 0 ELSE len(s)
ManagerTitles == {"milk", "", " ", LongTitle}
ManagerDescriptions == {None, Some("note"), Some(LongDescription)}
ManagerUpdateTitles == {None, Some("eggs"), Some(""), Some(LongTitle)}
\* add_task calls of one run, at most.
MaxManagerAdds == 3
ManagerIds == 1..(MaxManagerAdds + 1)

\* TaskManager.__init__, and no call made yet.
NewManager == [tasks |-> <<>>, next_id |-> 1, issued |-> <<>>, raised |-> FALSE]

\* Task.__post_init__: TRUE when it raises ValueError.
Task_post_init(title, description) ==
    \/ len_strip(title) = 0
    \/ len(title) > 200
    \/ description # None /\ description[1] # "" /\ len(description[1]) > 1000

\* TaskManager.get_task: the position of the first task with that id, 0 for None.
TaskManager_get_task(m, task_id) ==
    IF \E i \in DOMAIN m.tasks : m.tasks[i].id = task_id
    THEN CHOOSE i \in DOMAIN m.tasks :
            /\ m.tasks[i].id = task_id
            /\ \A j \in 1..(i - 1) : m.tasks[j].id # task_id
    ELSE 0

\* add_task that numbers the new task by the length of the list.
TaskManager_add_task_by_count(m, title, description) ==
    IF Task_post_init(title, description)
    THEN [m EXCEPT !.raised = TRUE]
    ELSE [m EXCEPT !.tasks = Append(@, [id |-> Len(m.tasks) + 1, title |-> title,
                                        description |-> description,
                                        completed |-> FALSE]),
                   !.next_id = @ + 1,
                   !.issued = Append(@, Len(m.tasks) + 1),
                   !.raised = FALSE]

\* TaskManager.add_task; issued records the id given to each task appended.
TaskManager_add_task(m, title, description) ==
    IF Task_post_init(title, description)
    THEN [m EXCEPT !.raised = TRUE]
    ELSE [m EXCEPT !.tasks = Append(@, [id |-> m.next_id, title |-> title,
                                        description |-> description,
                                        completed |-> FALSE]),
                   !.next_id = @ + 1,
                   !.issued = Append(@, m.next_id),
                   !.raised = FALSE]

\* Task.update: the title is assigned before the description is validated.
Task_update(task, title, description) ==
    LET bad_title == title # None /\ (len_strip(title[1]) = 0 \/ len(title[1]) > 200)
        titled == IF title # None /\ ~bad_title THEN [task EXCEPT !.title = title[1]]
                  ELSE task
        bad_description == description # None /\ len(description[1]) > 1000
    IN IF bad_title THEN [raised |-> TRUE, task |-> task]
       ELSE IF bad_description THEN [raised |-> TRUE, task |-> titled]
       ELSE [raised |-> FALSE,
             task |-> IF description # None
                      THEN [titled EXCEPT !.description = description] ELSE titled]

\* TaskManager.update_task
TaskManager_update_task(m, task_id, title, description) ==
    LET i == TaskManager_get_task(m, task_id)
        u == Task_update(m.tasks[i], title, description)
    IN IF i = 0 THEN [m EXCEPT !.raised = FALSE]
       ELSE [m EXCEPT !.tasks[i] = u.task, !.raised = u.raised]

\* list.remove: the list without its first element equal to task.
Remove(seq, task) ==
    LET i == CHOOSE k \in DOMAIN seq :
                 seq[k] = task /\ \A j \in 1..(k - 1) : seq[j] # task
    IN SubSeq(seq, 1, i - 1) \o SubSeq(seq, i + 1, Len(seq))

\* TaskManager.delete_task
TaskManager_delete_task(m, task_id) ==
    LET i == TaskManager_get_task(m, task_id)
    IN IF i = 0 THEN [m EXCEPT !.raised = FALSE]
       ELSE [m EXCEPT !.tasks = Remove(@, m.tasks[i]), !.raised = FALSE]

\* TaskManager.mark_complete and TaskManager.mark_incomplete
TaskManager_mark(m, task_id, completed) ==
    LET i == TaskManager_get_task(m, task_id)
    IN IF i = 0 THEN [m EXCEPT !.raised = FALSE]
       ELSE [m EXCEPT !.tasks[i].completed = completed, !.raised = FALSE]

manager_add_task ==
    /\ manager.next_id <= MaxManagerAdds
    /\ \E title \in ManagerTitles, description \in ManagerDescriptions :
           manager' = TaskManager_add_task(manager, title, description)
    /\ UNCHANGED <<users, conversations, db_messages, tasks, task_seq, req, pool, outcome, clock, aux>>

manager_update_task ==
    /\ \E task_id \in ManagerIds, title \in ManagerUpdateTitles,
          description \in ManagerDescriptions :
           manager' = TaskManager_update_task(manager, task_id, title, description)
    /\ UNCHANGED <<users, conversations, db_messages, tasks, task_seq, req, pool, outcome, clock, aux>>

manager_delete_task ==
    /\ \E task_id \in ManagerIds : manager' = TaskManager_delete_task(manager, task_id)
    /\ UNCHANGED <<users, conversations, db_messages, tasks, task_seq, req, pool, outcome, clock, aux>>

manager_mark_complete ==
    /\ \E task_id \in ManagerIds : manager' = TaskManager_mark(manager, task_id, TRUE)
    /\ UNCHANGED <<users, conversations, db_messages, tasks, task_seq, req, pool, outcome, clock, aux>>

manager_mark_incomplete ==
    /\ \E task_id \in ManagerIds : manager' = TaskManager_mark(manager, task_id, FALSE)
    /\ UNCHANGED <<users, conversations, db_messages, tasks, task_seq, req, pool, outcome, clock, aux>>

\* ------------------------------------------------------------- console TodoController
\* src/phase1/src/todo_manager.py: the controller of the console application,
\* over the TaskManager it creates in __init__.  A method returns the tuple
\* (success, message, task); the model keeps success and the manager after it.
Reported(m, success) == [m |-> m, success |-> success]
\* str.strip() on the model's strings
strip(s) == IF s = " " THEN "" ELSE s

\* TodoController.add_task
TodoController_add_task(m, title, description) ==
    LET stripped == strip(title)
        cleaned == IF description # None /\ description[1] # ""
                   THEN (IF strip(description[1]) = "" THEN None
                         ELSE Some(strip(description[1])))
                   ELSE description
        added == TaskManager_add_task(m, stripped, cleaned)
    IN IF stripped = "" THEN Reported(m, FALSE)
       ELSE IF added.raised THEN Reported(m, FALSE)
       ELSE Reported(added, TRUE)

\* TodoController.delete_task
TodoController_delete_task(m, task_id) ==
    IF TaskManager_get_task(m, task_id) = 0 THEN Reported(m, FALSE)
    ELSE Reported(TaskManager_delete_task(m, task_id), TRUE)

\* TodoController.toggle_complete
TodoController_toggle_complete(m, task_id) ==
    LET i == TaskManager_get_task(m, task_id)
    IN IF i = 0 THEN Reported(m, FALSE)
       ELSE IF m.tasks[i].completed
       THEN Reported(TaskManager_mark(m, task_id, FALSE), TRUE)
       ELSE Reported(TaskManager_mark(m, task_id, TRUE), TRUE)

\* mark_complete without its "already complete" check.
TodoController_mark_complete_unchecked(m, task_id) ==
    IF TaskManager_get_task(m, task_id) = 0 THEN Reported(m, FALSE)
    ELSE Reported(TaskManager_mark(m, task_id, TRUE), TRUE)

\* TodoController.mark_complete
TodoController_mark_complete(m, task_id) ==
    LET i == TaskManager_get_task(m, task_id)
    IN IF i = 0 THEN Reported(m, FALSE)
       ELSE IF m.tasks[i].completed THEN Reported(m, FALSE)
       ELSE Reported(TaskManager_mark(m, task_id, TRUE), TRUE)

\* TodoController.mark_incomplete
TodoController_mark_incomplete(m, task_id) ==
    LET i == TaskManager_get_task(m, task_id)
    IN IF i = 0 THEN Reported(m, FALSE)
       ELSE IF ~m.tasks[i].completed THEN Reported(m, FALSE)
       ELSE Reported(TaskManager_mark(m, task_id, FALSE), TRUE)

\* TodoController.update_task.  Task.update assigns the title before it checks
\* the description, so a call that reports the ValueError of the description
\* has changed the title.
TodoController_update_task(m, task_id, title, description) ==
    LET stripped == IF title # None THEN Some(strip(title[1])) ELSE None
        cleaned == IF description # None /\ strip(description[1]) # ""
                   THEN Some(strip(description[1])) ELSE None
        updated == TaskManager_update_task(m, task_id, stripped, cleaned)
    IN IF TaskManager_get_task(m, task_id) = 0 THEN Reported(m, FALSE)
       ELSE IF stripped # None /\ stripped[1] = "" THEN Reported(m, FALSE)
       ELSE IF stripped = None /\ cleaned = None THEN Reported(m, FALSE)
       ELSE Reported(updated, ~updated.raised)

\* add_task calls of one run of the controller, at most.
MaxControllerAdds == 2

\* One call of the controller: the manager after it, and the call with what it
\* reported and the tasks before it; a toggle that follows a toggle of the same
\* task is kept with that toggle.
Called(op, task_id, reported) ==
    /\ manager' = [reported.m EXCEPT !.raised = FALSE]
    /\ outcome' = (IF /\ outcome # <<>>
                      /\ op = "toggle_complete"
                      /\ outcome[Len(outcome)].op = op
                      /\ outcome[Len(outcome)].task_id = task_id
                   THEN <<outcome[Len(outcome)]>> ELSE <<>>)
                  \o <<[op |-> op, task_id |-> task_id, success |-> reported.success,
                        before |-> manager.tasks]>>
    /\ UNCHANGED <<users, conversations, db_messages, tasks, task_seq, req, pool, clock, aux>>

controller_add_task ==
    /\ manager.next_id <= MaxControllerAdds
    /\ \E title \in ManagerTitles, description \in ManagerDescriptions :
           Called("add_task", 0, TodoController_add_task(manager, title, description))

controller_update_task ==
    \E task_id \in ManagerIds, title \in ManagerUpdateTitles \cup {Some(" ")},
       description \in ManagerDescriptions \cup {Some(" ")} :
        Called("update_task", task_id,
               TodoController_update_task(manager, task_id, title, description))

controller_delete_task ==
    \E task_id \in ManagerIds :
        Called("delete_task", task_id, TodoController_delete_task(manager, task_id))

controller_toggle_complete ==
    \E task_id \in ManagerIds :
        Called("toggle_complete", task_id, TodoController_toggle_complete(manager, task_id))

controller_mark_complete ==
    \E task_id \in ManagerIds :
        Called("mark_complete", task_id, TodoController_mark_complete(manager, task_id))

controller_mark_incomplete ==
    \E task_id \in ManagerIds :
        Called("mark_incomplete", task_id, TodoController_mark_incomplete(manager, task_id))

\* ------------------------------------------------------------- specifications
\* The database holds user u2 and one task of u2 (created through the Phase II
\* API, which shares the tables); the requests in Present have not arrived yet.
InitWith(Present) ==
    /\ users = {"u2"}
    /\ conversations = <<>>
    /\ db_messages = <<>>
    /\ tasks = {[id |-> 1, user_id |-> "u2", title |-> "old", description |-> "",
                 completed |-> FALSE]}
    /\ task_seq = 1
    /\ req = [r \in Requests |->
                IF r \in Present THEN NewRequest ELSE [NewRequest EXCEPT !.pc = "absent"]]
    /\ pool \in Deployments
    /\ clock = [now |-> 0, same |-> FALSE]
    /\ aux = [r \in Requests |-> NewAux]
    /\ manager = NewManager
    /\ outcome = <<>>

\* The steps of the requests when every tool the model asks for has one statement.
NextReading(Calls, Cap) ==
    \E r \in Requests :
        \/ list_conversations(r)
        \/ get_conversation(r)
        \/ ChatBegin(r)
        \/ CreateUser(r)
        \/ GetOrCreateConversation(r)
        \/ FetchHistory(r)
        \/ StoreUserMessage(r)
        \/ RunAgent(r, Calls, Cap)
        \/ ExecuteToolCall(r)
        \/ NextResponse(r, Calls, Cap)
        \/ StoreAssistantMessage(r)

NextWith(Calls, Cap) ==
    \/ NextReading(Calls, Cap)
    \/ \E r \in Requests :
        \/ CommitToolCall(r)
        \/ ReloadToolCall(r)

\* Two chat requests, on any workers.
Init == InitWith(Requests)
Next == NextWith(ChatCalls, MaxChatToolCalls)
Spec == Init /\ [][Next]_vars

\* The next row is built in the instant the last one was built in.
SameInstant ==
    /\ ~clock.same
    /\ clock' = [clock EXCEPT !.same = TRUE]
    /\ UNCHANGED <<users, conversations, db_messages, tasks, task_seq, req, pool, outcome, manager, aux>>

\* The conversation store: user u2 has had one turn in conversation 1 and then
\* one in conversation 2 (requests r0 and r00: "hi", answered "ok"); two
\* requests arrive at the one process of uvicorn.run(app), which serves chat
\* turns one after the other and runs a read endpoint on a thread, at any time
\* of a turn; a message may be empty, two rows may be built in the same instant, and the model may ask for
\* the list of tasks.
InitStore ==
    /\ users = {"u2"}
    /\ conversations = <<[id |-> 1, user_id |-> "u2", created_at |-> 1, updated_at |-> 1,
                          turn |-> "r0"],
                         [id |-> 2, user_id |-> "u2", created_at |-> 4, updated_at |-> 4,
                          turn |-> "r00"]>>
    /\ db_messages = <<[id |-> 1, conversation_id |-> 1, user_id |-> "u2", role |-> "user",
                        content |-> "hi", created_at |-> 2, turn |-> "r0"],
                       [id |-> 2, conversation_id |-> 1, user_id |-> "u2", role |-> "assistant",
                        content |-> "ok", created_at |-> 3, turn |-> "r0"],
                       [id |-> 3, conversation_id |-> 2, user_id |-> "u2", role |-> "user",
                        content |-> "hi", created_at |-> 5, turn |-> "r00"],
                       [id |-> 4, conversation_id |-> 2, user_id |-> "u2", role |-> "assistant",
                        content |-> "ok", created_at |-> 6, turn |-> "r00"]>>
    /\ tasks = {[id |-> 1, user_id |-> "u2", title |-> "old", description |-> "",
                 completed |-> FALSE]}
    /\ task_seq = 1
    /\ req = [r \in Requests |-> NewRequest]
    /\ pool = {"w1"}
    /\ clock = [now |-> 6, same |-> FALSE]
    /\ aux = [r \in Requests |-> NewAux]
    /\ manager = NewManager
    /\ outcome = <<>>
NextStore ==
    \/ NextReading(LoopCalls, MaxStoreToolCalls)
    \/ SameInstant
    \/ \E r \in Requests : ChatBeginEmpty(r)
SpecStore == InitStore /\ [][NextStore]_vars

\* The Phase II task API: two requests to its endpoints.  The rows of users are
\* written by the sign-up of the frontend, not by the backend: u2, who has a
\* task, has signed up, and u1 has or has not.
InitApi ==
    /\ users \in {{"u2"}, Users}
    /\ conversations = <<>>
    /\ db_messages = <<>>
    /\ tasks = {[id |-> 1, user_id |-> "u2", title |-> "old", description |-> "",
                 completed |-> FALSE]}
    /\ task_seq = 1
    /\ req = [r \in Requests |-> NewRequest]
    /\ pool \in Deployments
    /\ clock = [now |-> 0, same |-> FALSE]
    /\ aux = [r \in Requests |-> NewAux]
    /\ manager = NewManager
    /\ outcome = <<>>
NextApi ==
    \E r \in Requests :
        \/ api_get_tasks(r)
        \/ api_create_task(r)
        \/ api_get_task(r)
        \/ api_update_task(r)
        \/ api_delete_task(r)
        \/ api_toggle_complete(r)
        \/ api_commit(r)
        \/ api_refresh(r)
SpecApi == InitApi /\ [][NextApi]_vars

\* The console application: one TaskManager and the calls made on it.
NextManager ==
    \/ manager_add_task
    \/ manager_update_task
    \/ manager_delete_task
    \/ manager_mark_complete
    \/ manager_mark_incomplete
SpecManager == Init /\ [][NextManager]_vars

\* The console application: one TodoController and the calls made on it.
NextController ==
    \/ controller_add_task
    \/ controller_update_task
    \/ controller_delete_task
    \/ controller_toggle_complete
    \/ controller_mark_complete
    \/ controller_mark_incomplete
SpecController == Init /\ [][NextController]_vars

\* One chat request whose model may request any tool call.
InitAgent == InitWith({"r1"})
NextAgent == NextWith(AgentCalls, MaxToolCalls)
SpecAgent == InitAgent /\ [][NextAgent]_vars

\* One chat request whose model may garble the arguments of a call.
NextParse == NextWith(ParseCalls, MaxParseCalls)
SpecParse == InitAgent /\ [][NextParse]_vars

\* One chat request whose model keeps requesting tool calls.
NextLoop == NextReading(LoopCalls, MaxLoopCalls)
SpecLoop == InitAgent /\ [][NextLoop]_vars

\* ------------------------------------------------------------- properties
\* The rows of the messages table that request r wrote, in insertion order.
TurnRows(r) == SelectSeq(db_messages, LAMBDA m : m.turn = r)
Ids(calls) == [i \in DOMAIN calls |-> calls[i].id]
Last(s) == s[Len(s)]

\* C1: two chat turns on the same conversation are serialized: once a turn has
\* stored its user message in a conversation, no other turn stores a message in
\* that conversation until the first has stored its assistant message or failed
\* (the log never reads user1, user2, assistant1, assistant2).
C1_TurnsSerialized ==
    \A i, j \in DOMAIN db_messages :
        ( /\ i < j
          /\ db_messages[i].conversation_id = db_messages[j].conversation_id
          /\ db_messages[i].turn # db_messages[j].turn
          /\ db_messages[i].role = "user" )
        => \/ req[db_messages[i].turn].pc = "failed"
           \/ \E k \in (i + 1)..(j - 1) :
                /\ db_messages[k].turn = db_messages[i].turn
                /\ db_messages[k].role = "assistant"

\* C2: a model that answers every call with tool requests makes run_agent end the
\* turn in Failed with LoopBoundExceeded at the configured maximum of model calls,
\* and no turn makes more model calls than that.
C2_LoopBoundEnforced ==
    \A r \in Requests :
        /\ aux[r].model_calls <= LoopBound
        /\ (aux[r].only_tools /\ aux[r].model_calls = LoopBound)
           => (req[r].pc = "failed" /\ aux[r].cause = "LoopBoundExceeded")

\* C3: a turn whose model call fails, in whatever round, ends with status 500, has
\* its user message stored and no assistant message; and every stored assistant
\* message is the final reply of a turn whose agent run returned.
C3_ModelFailureKeepsUserMessageOnly ==
    /\ \A r \in Requests :
        (req[r].pc = "failed" /\ aux[r].cause = "model")
        => /\ req[r].status = 500
           /\ Len(TurnRows(r)) = 1
           /\ TurnRows(r)[1].role = "user"
           /\ TurnRows(r)[1].content = req[r].message
           /\ TurnRows(r)[1].conversation_id = req[r].conversation
    /\ \A i \in DOMAIN db_messages :
        db_messages[i].role = "assistant"
        => LET r == db_messages[i].turn
           IN /\ req[r].pc = "done"
              /\ aux[r].cause = ""
              /\ ~aux[r].only_tools
              /\ db_messages[i].content = req[r].response

\* C3 witness: a turn failed at the model call that follows a tool round, and its
\* user message is stored.
C3_Witness ==
    \E r \in Requests :
        /\ req[r].pc = "failed" /\ aux[r].cause = "model" /\ aux[r].model_calls = 2
        /\ Len(req[r].tool_calls_log) = 1
        /\ Len(TurnRows(r)) = 1

\* C4: a turn whose first model call returns the final reply adds exactly two
\* messages, the user's and then the assistant's, both to its own conversation.
C4_FinalReplyAddsTwoMessages ==
    \A r \in Requests :
        (req[r].pc = "done" /\ aux[r].model_calls = 1)
        => /\ Len(TurnRows(r)) = 2
           /\ TurnRows(r)[1].role = "user"
           /\ TurnRows(r)[1].content = req[r].message
           /\ TurnRows(r)[2].role = "assistant"
           /\ TurnRows(r)[2].content = req[r].response
           /\ \A i \in 1..2 :
                /\ TurnRows(r)[i].conversation_id = req[r].conversation
                /\ TurnRows(r)[i].user_id = req[r].user_id
           /\ req[r].conversation \in DOMAIN conversations
           /\ conversations[req[r].conversation].user_id = req[r].user_id

\* C4 witness: such a turn is done while another conversation holds messages too.
C4_Witness ==
    \E r \in Requests :
        /\ req[r].pc = "done" /\ aux[r].model_calls = 1 /\ req[r].tool_calls_log = <<>>
        /\ \E i \in DOMAIN db_messages : db_messages[i].conversation_id # req[r].conversation

\* C5: every tool call the model requests in a round is executed exactly once, in
\* the requested order, whatever the earlier calls of the round did.
C5_EveryRequestedCallExecuted ==
    \A r \in Requests :
        /\ Len(aux[r].executed) <= Len(aux[r].requested)
        /\ Ids(aux[r].executed) = SubSeq(Ids(aux[r].requested), 1, Len(aux[r].executed))
        /\ req[r].pc # "tools" => Len(aux[r].executed) = Len(aux[r].requested)

\* C6: the tool-call log a completed turn returns has one entry per executed call,
\* in the requested order, each with the name, the arguments and the result of
\* that call; and the turn has stored its user message and one assistant message.
C6_LogMatchesExecutedCalls ==
    \A r \in Requests :
        req[r].pc = "done"
        => /\ Len(req[r].tool_calls_log) = Len(aux[r].requested)
           /\ Len(aux[r].executed) = Len(aux[r].requested)
           /\ \A i \in DOMAIN aux[r].requested :
                /\ aux[r].executed[i].id = aux[r].requested[i].id
                /\ req[r].tool_calls_log[i].tool = aux[r].requested[i].name
                /\ req[r].tool_calls_log[i].arguments = loads(aux[r].requested[i].arguments)
                /\ req[r].tool_calls_log[i].result = loads(aux[r].executed[i].returned)
           /\ Len(TurnRows(r)) = 2
           /\ TurnRows(r)[1].role = "user"
           /\ TurnRows(r)[2].role = "assistant"
           /\ TurnRows(r)[2].content = req[r].response

\* C6 witness: a turn with two calls in round 1 and the final reply in round 2.
C6_Witness ==
    \E r \in Requests :
        /\ req[r].pc = "done" /\ aux[r].model_calls = 2
        /\ Len(req[r].tool_calls_log) = 2
        /\ req[r].tool_calls_log[1].tool = "add_task"
        /\ req[r].tool_calls_log[2].tool = "list_tasks"

TaskIdTools == {"complete_task", "delete_task", "update_task"}

\* C7: complete_task, delete_task or update_task on a task id that no task has
\* returns the error payload "Task not found" as that call's result, in the log
\* and in the transcript, changes no task and does not end the turn.
C7_MissingTaskIsAnErrorResult ==
    \A r \in Requests : \A i \in DOMAIN aux[r].executed :
        LET e == aux[r].executed[i]
        IN (e.name \in TaskIdTools /\ "task_id" \in e.arguments.has /\ ~e.exists)
           => /\ ~e.raised
              /\ ~e.changed
              /\ (aux[r].cause = "tool" => i < Len(aux[r].executed))
              /\ req[r].tool_calls_log[i].tool = e.name
              /\ req[r].tool_calls_log[i].result = [error |-> "Task not found"]
              /\ \E j \in DOMAIN req[r].full_messages :
                    /\ req[r].full_messages[j].role = "tool"
                    /\ req[r].full_messages[j].tool_call_id = e.id
                    /\ req[r].full_messages[j].content = dumps([error |-> "Task not found"])

\* C7 witness: a turn completed with a final reply after such a call.
C7_Witness ==
    \E r \in Requests :
        /\ req[r].pc = "done" /\ req[r].status = 200
        /\ \E i \in DOMAIN aux[r].executed :
            /\ aux[r].executed[i].name = "complete_task"
            /\ ~aux[r].executed[i].exists
            /\ req[r].tool_calls_log[i].result = [error |-> "Task not found"]

\* C8: a tool call without a required argument gets an error result in the
\* transcript; it raises nothing to the caller of run_agent and fails no turn.
C8_MissingArgumentIsAnErrorResult ==
    \A r \in Requests :
        /\ aux[r].cause # "tool"
        /\ \A i \in DOMAIN aux[r].executed :
            LET e == aux[r].executed[i]
            IN ~(Required(e.name) \subseteq e.arguments.has)
               => /\ ~e.raised
                  /\ "error" \in DOMAIN loads(e.returned)

\* C9: a call of a tool that is not registered returns the error "Unknown tool",
\* in the log and in the transcript, changes nothing in the task store and does
\* not end the turn.
C9_UnknownToolIsAnErrorResult ==
    \A r \in Requests : \A i \in DOMAIN aux[r].executed :
        LET e == aux[r].executed[i]
        IN e.name \notin ToolNames
           => /\ ~e.raised
              /\ ~e.changed
              /\ (aux[r].cause = "tool" => i < Len(aux[r].executed))
              /\ req[r].tool_calls_log[i] =
                    [tool |-> e.name, arguments |-> e.arguments,
                     result |-> [error |-> "Unknown tool: " \o e.name]]
              /\ \E j \in DOMAIN req[r].full_messages :
                    /\ req[r].full_messages[j].role = "tool"
                    /\ req[r].full_messages[j].tool_call_id = e.id
                    /\ req[r].full_messages[j].content =
                          dumps([error |-> "Unknown tool: " \o e.name])

\* C9 witness: a turn completed after a call of send_email, and the tasks table
\* is the initial one.
C9_Witness ==
    \E r \in Requests :
        /\ req[r].pc = "done"
        /\ Len(req[r].tool_calls_log) = 1
        /\ req[r].tool_calls_log[1].tool = "send_email"
        /\ task_seq = 1 /\ Cardinality(tasks) = 1

\* The tasks a tool result shows: the items of a listing, or the task an
\* acknowledgement names; an error shows none.
Shown(result) ==
    IF "list" \in DOMAIN result
    THEN {[id |-> result.list[i].id, title |-> result.list[i].title] :
            i \in DOMAIN result.list}
    ELSE IF "task_id" \in DOMAIN result
    THEN {[id |-> result.task_id, title |-> result.title]}
    ELSE {}

\* C10: a tool call run for user U leaves every task of another user in place and
\* unchanged, creates only tasks owned by U, and shows in its result only tasks
\* owned by U.
C10_ToolsScopedToUser ==
    [][\A r \in Requests :
        (req[r].pc = "tools" /\ req'[r] # req[r])
        => LET U == req[r].user_id
           IN /\ \A t \in tasks : t.user_id # U => t \in tasks'
              /\ \A t \in tasks' \ tasks : t.user_id = U
              /\ Len(req'[r].tool_calls_log) = Len(req[r].tool_calls_log) + 1
                 => \A s \in Shown(Last(req'[r].tool_calls_log).result) :
                       \E t \in tasks \cup tasks' :
                          t.id = s.id /\ t.title = s.title /\ t.user_id = U]_vars

\* C10 witness: u1 has called complete_task, delete_task or update_task on task
\* 1, which is u2's, and has listed the tasks; task 1 is as it was.
C10_Witness ==
    \E r \in Requests :
        /\ req[r].user_id = "u1"
        /\ \E i \in DOMAIN req[r].tool_calls_log :
            /\ req[r].tool_calls_log[i].tool \in TaskIdTools
            /\ req[r].tool_calls_log[i].arguments.task_id = 1
        /\ \E i \in DOMAIN req[r].tool_calls_log :
            req[r].tool_calls_log[i].tool = "list_tasks"
        /\ [id |-> 1, user_id |-> "u2", title |-> "old", description |-> "",
            completed |-> FALSE] \in tasks

\* The role and content of the messages of a conversation, in insertion order.
Appended(conversation_id) ==
    LET rows == SelectSeq(db_messages, LAMBDA m : m.conversation_id = conversation_id)
    IN [i \in 1..Len(rows) |-> [role |-> rows[i].role, content |-> rows[i].content]]

\* C11: a history read returns the messages of the conversation in append order,
\* whatever their creation timestamps: get_conversation answers the rows in the
\* order of their insertion, and the message array chat builds is the
\* conversation in insertion order followed by the new user message.
C11_HistoryInAppendOrder ==
    \A r \in Requests :
        /\ (req[r].op = "get_conversation" /\ req[r].pc = "answered")
           => \A i, j \in DOMAIN req[r].body.messages :
                i < j => req[r].body.messages[i].id < req[r].body.messages[j].id
        /\ req[r].pc = "store_user"
           => req[r].messages =
                Append(Appended(req[r].conversation),
                       [role |-> "user", content |-> req[r].message])

\* The chat request r has resolved its conversation (main.py:112-130 are behind it).
Resolved(r) ==
    /\ req[r].op = "chat"
    /\ req[r].pc \notin {"new", "create_user", "conversation"}
    /\ ~(req[r].pc = "failed" /\ aux[r].cause \in {"user", "conversation"})

\* C12: a chat request with an explicit conversation id that names no
\* conversation, or a conversation of another user, fails with status 404 (only a
\* request whose id names a conversation of its user gets past the lookup), and
\* such a request has appended no message, created no conversation and made no
\* model call.
C12_UnknownConversationIsNotFound ==
    \A r \in Requests :
        /\ (Resolved(r) /\ req[r].conversation_id # 0)
           => \E i \in DOMAIN conversations :
                /\ conversations[i].id = req[r].conversation_id
                /\ conversations[i].user_id = req[r].user_id
        /\ (req[r].op = "chat" /\ req[r].pc = "failed" /\ aux[r].cause = "conversation")
           => /\ req[r].status = 404
              /\ req[r].conversation_id # 0
              /\ TurnRows(r) = <<>>
              /\ \A i \in DOMAIN conversations : conversations[i].turn # r
              /\ aux[r].model_calls = 0

\* A chat request on a conversation of another user has been answered 404.
C12_Witness ==
    \E r \in Requests :
        /\ req[r].op = "chat" /\ req[r].pc = "failed" /\ req[r].status = 404
        /\ \E i \in DOMAIN conversations :
            /\ conversations[i].id = req[r].conversation_id
            /\ conversations[i].user_id # req[r].user_id

\* The conversation id of request r names a conversation of another user.
Foreign(r) ==
    \E i \in DOMAIN conversations :
        /\ conversations[i].id = req[r].conversation_id
        /\ conversations[i].user_id # req[r].user_id

\* Request r has looked its conversation up: get_conversation has answered, or
\* chat has main.py:112-130 behind it.
Looked(r) ==
    \/ req[r].op = "get_conversation" /\ req[r].pc \in {"answered", "failed"}
    \/ /\ req[r].op = "chat"
       /\ req[r].pc \notin {"new", "create_user", "conversation"}
       /\ aux[r].cause # "user"

\* The answer to request r holds no message read from the database.
NoMessageRead(r) ==
    /\ req[r].body = NoBody
    /\ req[r].messages = <<>>
    /\ req[r].full_messages = <<>>

\* list_conversations answers conversations of its user only.
OnlyOwnListed ==
    \A r \in Requests :
        (req[r].op = "list_conversations" /\ req[r].pc = "answered")
        => \A i \in DOMAIN req[r].body.conversations :
             req[r].body.conversations[i].user_id = req[r].user_id

\* C13, as claimed: reading a conversation of another user (get_conversation) or
\* continuing it (chat with its id) fails with Forbidden, status 403, and
\* returns none of its messages; list_conversations returns conversations of
\* its user only.
C13_NonOwnerIsForbidden ==
    /\ \A r \in Requests :
        (Looked(r) /\ Foreign(r))
        => (req[r].pc = "failed" /\ req[r].status = 403 /\ NoMessageRead(r))
    /\ OnlyOwnListed

\* C13, amended: reading a conversation of another user (get_conversation) or
\* continuing it (chat with its id) fails with NotFound, status 404, the answer
\* to an id that names no conversation, and returns none of its messages;
\* list_conversations returns conversations of its user only.
C13_NonOwnerIsNotFound ==
    /\ \A r \in Requests :
        (Looked(r) /\ Foreign(r))
        => (req[r].pc = "failed" /\ req[r].status = 404 /\ NoMessageRead(r))
    /\ OnlyOwnListed

\* get_conversation has refused a conversation of another user that holds
\* messages, and list_conversations has answered a conversation.
C13_Witness ==
    /\ \E r \in Requests :
        /\ req[r].op = "get_conversation" /\ req[r].pc = "failed" /\ Foreign(r)
        /\ \E i \in DOMAIN db_messages :
            db_messages[i].conversation_id = req[r].conversation_id
    /\ \E r \in Requests :
        /\ req[r].op = "list_conversations" /\ req[r].pc = "answered"
        /\ req[r].body.conversations # <<>>

\* The place in the log of the last of its first n messages that belongs to the
\* conversation; 0 when none does.
LastAppend(conversation_id, n) ==
    LET at == {i \in 1..n : db_messages[i].conversation_id = conversation_id}
    IN IF at = {} THEN 0 ELSE CHOOSE i \in at : \A j \in at : j <= i

\* C14: appending a message updates the update timestamp of its conversation, so
\* list_conversations returns the conversations ordered by most recent message
\* append first (as the log stood when the list was read): a conversation that
\* holds a message is not listed before one with a later append.
C14_ListOrderedByLastAppend ==
    \A r \in Requests :
        (req[r].op = "list_conversations" /\ req[r].pc = "answered")
        => \A i, j \in DOMAIN req[r].body.conversations :
             (i < j /\ LastAppend(req[r].body.conversations[i].id, aux[r].appended) > 0)
             => LastAppend(req[r].body.conversations[i].id, aux[r].appended)
                  >= LastAppend(req[r].body.conversations[j].id, aux[r].appended)

\* C15: a chat request with an empty message is rejected with ValidationError
\* (status 422) before any persistence: its answer is never another one, and it
\* writes no message and no conversation and makes no model call.
C15_EmptyMessageRejected ==
    \A r \in Requests :
        (req[r].op = "chat" /\ req[r].message = "")
        => /\ req[r].pc \in {"done", "failed"} => req[r].status = 422
           /\ TurnRows(r) = <<>>
           /\ \A i \in DOMAIN conversations : conversations[i].turn # r
           /\ aux[r].model_calls = 0

\* C16: the message log is append-only: no step of chat, list_conversations or
\* get_conversation removes a message or changes a message's conversation, role
\* or content; every row of the log stays in its place as it was written.
C16_LogAppendOnly ==
    [][\A i \in DOMAIN db_messages :
         /\ i \in DOMAIN db_messages'
         /\ db_messages'[i] = db_messages[i]]_vars

\* A turn has stored its two messages and get_conversation has read the
\* conversation after that.
C16_Witness ==
    \E r1, r2 \in Requests :
        /\ req[r1].pc = "done" /\ Len(TurnRows(r1)) = 2
        /\ req[r2].op = "get_conversation" /\ req[r2].pc = "answered"
        /\ Len(req[r2].body.messages) >= 2

\* The entries of the first model call of turn r: the transcript starts with
\* them, and later rounds only add entries behind them (agent.py:34-44, 52, 77).
FirstTranscript(r) == SubSeq(req[r].full_messages, 1, 1 + Len(req[r].messages))

\* The role and content of the messages that were in the conversation of turn r
\* before the turn stored its user message, in insertion order.
Before(r) ==
    LET mine == TurnRows(r)[1]
        rows == SelectSeq(db_messages,
                          LAMBDA m : m.conversation_id = mine.conversation_id /\ m.id < mine.id)
    IN [i \in 1..Len(rows) |-> [role |-> rows[i].role, content |-> rows[i].content]]

\* C17: the transcript of the first model call of a turn is the static system
\* instructions, then every message persisted in the conversation before the
\* turn, in append order, then the new user message, once, as the last entry.
C17_FirstTranscript ==
    \A r \in Requests :
        aux[r].model_calls >= 1
        => FirstTranscript(r) =
             <<[role |-> "system", content |-> SYSTEM_PROMPT]>>
             \o Before(r)
             \o <<[role |-> "user", content |-> req[r].message]>>

\* The tools that write to the tasks table when they succeed.
WritingTools == {"add_task", "complete_task", "delete_task", "update_task"}

\* C18: only successful tool executions mutate the task store: a step that
\* changes the tasks table (or the ids it has given out) is a statement of one
\* tool call run by run_agent, the tool is not list_tasks nor an unknown tool,
\* and the call is not one that ends in an error result; every call that has
\* ended in an error result or an exception, and every call of list_tasks or of
\* an unknown tool, has left every task as it was.
C18_OnlySuccessfulToolsWrite ==
    /\ [](\A r \in Requests : \A i \in DOMAIN aux[r].executed :
            LET e == aux[r].executed[i]
            IN (e.raised \/ "error" \in DOMAIN loads(e.returned) \/ e.name \notin WritingTools)
               => ~e.changed)
    /\ [][(tasks' # tasks \/ task_seq' # task_seq)
          => \E r \in Requests :
               /\ req[r].pc = "tools"
               /\ req'[r] # req[r]
               /\ Head(req[r].todo).name \in WritingTools
               /\ IF req'[r].session # <<>>
                  THEN "error" \notin DOMAIN loads(req'[r].session[1].result)
                  ELSE /\ Len(aux'[r].executed) = Len(aux[r].executed) + 1
                       /\ ~Last(aux'[r].executed).raised
                       /\ "error" \notin DOMAIN loads(Last(aux'[r].executed).returned)]_vars

\* One turn has executed a call that changed the tasks table and a call on a
\* task of another user, answered "Task not found".
C18_Witness ==
    \E r \in Requests :
        /\ Len(aux[r].executed) = 2
        /\ \E i, j \in DOMAIN aux[r].executed :
            /\ aux[r].executed[i].changed
            /\ ~aux[r].executed[j].raised
            /\ loads(aux[r].executed[j].returned) = [error |-> "Task not found"]
            /\ aux[r].executed[j].exists

\* Turn r has stored its user message and waits for an answer of the model.
WaitingOnModel(r) == req[r].op = "chat" /\ req[r].pc \in {"agent", "next_response"}

\* C19: turns for different conversations proceed in parallel: while a turn
\* waits on the model, a chat request that arrives (for another conversation, a
\* new one included) can start at once.
C19_OtherTurnStartsWhileWaiting ==
    \A r1, r2 \in Requests :
        (WaitingOnModel(r1) /\ req[r2].pc = "new") => ENABLED ChatBegin(r2)

\* Turn r is in progress on its conversation: it has appended its user message
\* and has neither appended its assistant message nor failed.
InTurn(r) ==
    /\ req[r].op = "chat"
    /\ req[r].pc \in {"agent", "tools", "next_response", "store_assistant"}

\* C20: a chat request that cannot get the token of its conversation, because a
\* turn on that conversation is in progress and stays so, fails with Busy and
\* appends no message: no request appends its user message to a conversation
\* while another turn is in progress on it, so no two turns are ever in progress
\* on one conversation.
C20_ContendedRequestFailsBusy ==
    \A r1, r2 \in Requests :
        (r1 # r2 /\ InTurn(r1) /\ InTurn(r2))
        => req[r1].conversation # req[r2].conversation

\* Entry j of transcript t is an assistant entry that requests tool calls.
IsToolRequest(t, j) == t[j].role = "assistant" /\ "tool_calls" \in DOMAIN t[j]

\* C21: in every transcript sent to the model after a tool round, each assistant
\* entry that requests n tool calls is followed by exactly n tool entries, the
\* i-th tagged with the id of the i-th requested call, and every tool entry is
\* one of these.
C21_ToolResultsFollowRequests ==
    \A r \in Requests : \A k \in DOMAIN aux[r].sent :
        LET t == aux[r].sent[k]
        IN \A j \in DOMAIN t :
            /\ IsToolRequest(t, j)
               => LET n == Len(t[j].tool_calls)
                  IN /\ j + n <= Len(t)
                     /\ \A i \in 1..n :
                          /\ t[j + i].role = "tool"
                          /\ t[j + i].tool_call_id = t[j].tool_calls[i].id
                     /\ (j + n + 1 <= Len(t) => t[j + n + 1].role # "tool")
            /\ t[j].role = "tool"
               => \E a \in 1..(j - 1) :
                    /\ IsToolRequest(t, a)
                    /\ j - a <= Len(t[a].tool_calls)
                    /\ t[a].tool_calls[j - a].id = t[j].tool_call_id

\* A transcript was sent that holds a request of two calls and their two results.
C21_Witness ==
    \E r \in Requests : \E k \in DOMAIN aux[r].sent :
        LET t == aux[r].sent[k]
        IN \E j \in DOMAIN t :
            /\ IsToolRequest(t, j)
            /\ Len(t[j].tool_calls) = 2
            /\ j + 2 = Len(t)
            /\ t[j + 1].role = "tool" /\ t[j + 2].role = "tool"
            /\ t[j + 1].tool_call_id # t[j + 2].tool_call_id

\* The values the schema of list_tasks enumerates for status (tools.py:43).
StatusEnum == {"all", "pending", "completed"}

\* C22: a list_tasks call whose status argument is none of all, pending,
\* completed is answered with an error result, not with a listing.
C22_UnknownStatusIsAnErrorResult ==
    \A r \in Requests : \A i \in DOMAIN aux[r].executed :
        LET e == aux[r].executed[i]
        IN ( /\ e.name = "list_tasks"
             /\ "status" \in e.arguments.has
             /\ e.arguments.status \notin StatusEnum )
           => /\ ~e.raised
              /\ "error" \in DOMAIN loads(e.returned)
              /\ "list" \notin DOMAIN loads(e.returned)

\* C23: an add_task call with a title creates exactly one new task, owned by the
\* calling user, not completed, with that title and an id no task had, leaves
\* all existing tasks unchanged, and returns status "created" with the id of
\* the new task.
C23_AddTaskCreatesOneTask ==
    [][\A r \in Requests :
         ( /\ req[r].pc = "tools"
           /\ req'[r] # req[r]
           /\ Parses(Head(req[r].todo).arguments)
           /\ Head(req[r].todo).name = "add_task"
           /\ "title" \in loads(Head(req[r].todo).arguments).has )
         =>
         IF req[r].session = <<>>
         THEN \* the INSERT and its commit
              \E t \in tasks' :
                /\ t \notin tasks
                /\ tasks' = tasks \cup {t}
                /\ \A old \in tasks : old.id # t.id
                /\ t.user_id = req[r].user_id
                /\ ~t.completed
                /\ t.title = loads(Head(req[r].todo).arguments).title
                /\ req'[r].session # <<>>
                /\ req'[r].session[1].dirty = {} /\ req'[r].session[1].deleted = {}
                /\ loads(req'[r].session[1].result) =
                     [task_id |-> t.id, status |-> "created", title |-> t.title]
         ELSE \* the refresh and the return
              /\ tasks' = tasks
              /\ Len(aux'[r].executed) = Len(aux[r].executed) + 1
              /\ ~Last(aux'[r].executed).raised
              /\ loads(Last(aux'[r].executed).returned) = loads(req[r].session[1].result)
              /\ Last(req'[r].tool_calls_log).result = loads(req[r].session[1].result)]_vars

\* A turn of user u1 has added a task next to the task of u2.
C23_Witness ==
    \E r \in Requests : \E i \in DOMAIN aux[r].executed :
        /\ aux[r].executed[i].name = "add_task"
        /\ aux[r].executed[i].changed
        /\ req[r].user_id = "u1"
        /\ \E t \in tasks : t.user_id = "u1" /\ t.title = Title /\ ~t.completed
        /\ \E t \in tasks : t.user_id = "u2" /\ t.title = "old"

\* C24: each conversation is owned by exactly one user (its id names one row,
\* with one user of the system), and the user id of every persisted message is
\* the owner of the conversation the message belongs to.
C24_MessagesOwnedByConversationOwner ==
    /\ \A i \in DOMAIN conversations :
        /\ conversations[i].user_id \in Users
        /\ \A j \in DOMAIN conversations :
             conversations[i].id = conversations[j].id => i = j
    /\ \A k \in DOMAIN db_messages :
        \E i \in DOMAIN conversations :
            /\ conversations[i].id = db_messages[k].conversation_id
            /\ conversations[i].user_id = db_messages[k].user_id

\* Two users have a conversation each, both with a message.
C24_Witness ==
    \E i, j \in DOMAIN conversations :
        /\ conversations[i].user_id # conversations[j].user_id
        /\ \E k \in DOMAIN db_messages : db_messages[k].conversation_id = conversations[i].id
        /\ \E k \in DOMAIN db_messages : db_messages[k].conversation_id = conversations[j].id

\* The endpoints of the Phase II task API, and those that name a task.
ApiOps == {"get_tasks", "create_task", "get_task", "update_task", "delete_task",
           "toggle_complete"}
TaskIdOps == {"get_task", "update_task", "delete_task", "toggle_complete"}

\* C25: in the Phase II task API, an endpoint called with a path user id that is
\* not the authenticated user's id fails with 403, returns no task and changes
\* none; get, update, delete and toggle on a task id that a user other than the
\* path user owns fail with 404, return no task and leave the tasks unchanged.
\* Such a request is answered by its first step; a step that changes a task is a
\* step of a request of the task's owner, and a response holds only tasks of the
\* path user.
C25_TaskApiIsolatesUsers ==
    [][/\ \A t \in (tasks \ tasks') \cup (tasks' \ tasks) :
            \E r \in Requests : /\ req'[r] # req[r]
                                 /\ req'[r].op \in ApiOps
                                 /\ req'[r].auth = req'[r].user_id
                                 /\ t.user_id = req'[r].user_id
       /\ \A r \in Requests : \A i \in DOMAIN req'[r].body.tasks :
            req'[r].body.tasks[i].user_id = req'[r].user_id
       /\ \A r \in Requests :
         (req[r].pc = "new" /\ req'[r].op \in ApiOps)
         => LET q == req'[r]
            IN /\ (q.auth \in Users /\ q.auth # q.user_id)
                  => /\ q.pc = "failed" /\ q.status = 403
                     /\ q.body = NoBody
                     /\ tasks' = tasks
               /\ ( /\ q.auth = q.user_id
                    /\ q.op \in TaskIdOps
                    /\ \E t \in tasks : t.id = q.task_id /\ t.user_id # q.user_id )
                  => /\ q.pc = "failed" /\ q.status = 404
                     /\ q.body = NoBody
                     /\ tasks' = tasks]_vars

\* One request with the token of another user was answered 403, and a toggle of
\* a task of another user was answered 404.
C25_Witness ==
    /\ \E r \in Requests :
        /\ req[r].op \in ApiOps /\ req[r].status = 403
        /\ req[r].auth \in Users /\ req[r].auth # req[r].user_id
        /\ \E t \in tasks : t.user_id = req[r].user_id
    /\ \E r \in Requests :
        /\ req[r].op = "toggle_complete" /\ req[r].status = 404
        /\ req[r].auth = req[r].user_id
        /\ \E t \in tasks : t.id = req[r].task_id /\ t.user_id # req[r].user_id

\* C26: TaskManager generates unique task ids: after any sequence of add_task,
\* update_task, delete_task, mark_complete and mark_incomplete, no two stored
\* tasks share an id, and no id is given to two tasks, also when the task that
\* first held it has been deleted.
C26_TaskIdsAreNeverReused ==
    /\ \A i, j \in DOMAIN manager.tasks :
           manager.tasks[i].id = manager.tasks[j].id => i = j
    /\ \A i, j \in DOMAIN manager.issued :
           manager.issued[i] = manager.issued[j] => i = j
    /\ \A i \in DOMAIN manager.tasks :
           \E k \in DOMAIN manager.issued : manager.issued[k] = manager.tasks[i].id

\* A task was deleted and tasks were added after it: two tasks are stored, the
\* second created after a task whose id is no longer stored.
C26_Witness ==
    /\ Len(manager.tasks) = 2
    /\ \E k \in DOMAIN manager.issued :
           /\ k < Len(manager.issued)
           /\ \A i \in DOMAIN manager.tasks : manager.tasks[i].id # manager.issued[k]
    /\ \E i \in DOMAIN manager.tasks : manager.tasks[i].completed
    /\ \E i \in DOMAIN manager.tasks : manager.tasks[i].title = "eggs"

\* The tool rounds of request r so far: the assistant entries with tool calls
\* that run_agent has appended to its transcript.
ToolRounds(r) ==
    Cardinality({j \in DOMAIN req[r].full_messages : IsToolRequest(req[r].full_messages, j)})
\* Transcript t is transcript s and then one tool round: the assistant entry with
\* its tool calls and one tool entry or more.
ExtendsByOneRound(s, t) ==
    /\ Len(t) >= Len(s) + 2
    /\ SubSeq(t, 1, Len(s)) = s
    /\ IsToolRequest(t, Len(s) + 1)
    /\ \A j \in (Len(s) + 2)..Len(t) : t[j].role = "tool"
ReplyReturned(r) == req[r].pc \in {"store_assistant", "done"}

\* C27: within one turn, model calls and tool rounds alternate, starting with a
\* model call: the transcript of each model call after the first is the
\* transcript of the call before it and then one tool round, a turn that has
\* got its final reply after k tool rounds has made k + 1 model calls, and no
\* tool is executed once the final reply has been returned.
C27_ModelCallsAndToolRoundsAlternate ==
    /\ [](\A r \in Requests :
            /\ aux[r].model_calls = Len(aux[r].sent)
            /\ \A k \in 1..(Len(aux[r].sent) - 1) :
                   ExtendsByOneRound(aux[r].sent[k], aux[r].sent[k + 1])
            /\ \A k \in DOMAIN aux[r].sent :
                   k = 1 => \A j \in DOMAIN aux[r].sent[k] : aux[r].sent[k][j].role # "tool"
            /\ ReplyReturned(r) => aux[r].model_calls = ToolRounds(r) + 1)
    /\ [][\A r \in Requests :
            ReplyReturned(r) => /\ aux'[r].executed = aux[r].executed
                                /\ aux'[r].model_calls = aux[r].model_calls]_vars

\* A turn has ended with its final reply after two tool rounds and three model calls.
C27_Witness ==
    \E r \in Requests :
        /\ req[r].pc = "done"
        /\ ToolRounds(r) = 2
        /\ Len(aux[r].sent) = 3
        /\ Len(aux[r].executed) = 2

\* Request r takes the step that gets or creates its conversation, having named none.
CreatesConversation(r) ==
    /\ req[r].pc = "conversation"
    /\ req[r].conversation_id = 0
    /\ req'[r].pc # "conversation"

\* C28: a chat request without a conversation id creates one new conversation,
\* owned by the requesting user, whose id differs from the id of every existing
\* conversation; the conversation id of a response is the conversation that
\* holds the turn's user and assistant message; and no step of chat,
\* list_conversations or get_conversation deletes a conversation.
C28_NewConversationIsFreshAndReturned ==
    /\ [][\A r \in Requests : CreatesConversation(r) =>
            /\ Len(conversations') = Len(conversations) + 1
            /\ Last(conversations').user_id = req[r].user_id
            /\ \A i \in DOMAIN conversations : conversations[i].id # Last(conversations').id
            /\ req'[r].conversation = Last(conversations').id]_vars
    /\ [](\A r \in Requests : req[r].pc = "done" =>
            /\ [i \in 1..Len(TurnRows(r)) |-> TurnRows(r)[i].role] = <<"user", "assistant">>
            /\ \A i \in DOMAIN TurnRows(r) : TurnRows(r)[i].conversation_id = req[r].conversation
            /\ \E i \in DOMAIN conversations :
                   /\ conversations[i].id = req[r].conversation
                   /\ conversations[i].user_id = req[r].user_id)
    /\ [][\A i \in DOMAIN conversations :
            /\ i \in DOMAIN conversations'
            /\ conversations'[i].id = conversations[i].id
            /\ conversations'[i].user_id = conversations[i].user_id]_vars

\* Two requests that named no conversation have been answered, each from a
\* conversation of its own that holds its two messages.
C28_Witness ==
    /\ \A r \in Requests : req[r].pc = "done" /\ req[r].conversation_id = 0
    /\ req["r1"].conversation # req["r2"].conversation
    /\ Len(conversations) = 2
    /\ \A r \in Requests : Len(TurnRows(r)) = 2

\* The turn of request q failed after its user message was stored: the model
\* call, the parsing of a call's arguments or a tool raised (main.py:187-194).
TurnFailed(q) ==
    /\ req[q].op = "chat"
    /\ req[q].pc = "failed"
    /\ req[q].status = 500
    /\ TurnRows(q) # <<>>
\* Request r arrived after the turn of q had failed, for the conversation and
\* the user of q.
RetryOf(r, q) ==
    /\ r # q
    /\ TurnFailed(q)
    /\ q \in aux[r].after
    /\ req[r].op = "chat"
    /\ req[r].user_id = req[q].user_id
    /\ req[r].conversation_id = req[q].conversation
\* The rows of the messages table of a conversation with an id above n.
RowsAfter(conversation_id, n) ==
    SelectSeq(db_messages, LAMBDA m : m.conversation_id = conversation_id /\ m.id > n)

\* C29: a chat request that arrives for conversation C after a turn on C has
\* failed is accepted (the lookup of C does not fail); its transcript holds the
\* user message of the failed turn and ends with the new user message; and when
\* it succeeds the conversation ends with its user message and then exactly one
\* assistant message.
C29_TurnAfterFailedTurn ==
    \A r, q \in Requests : RetryOf(r, q) =>
        /\ aux[r].cause \notin {"user", "conversation"}
        /\ req[r].pc \notin {"new", "create_user", "conversation", "history"} =>
               /\ Last(req[r].messages) = [role |-> "user", content |-> req[r].message]
               /\ \E j \in 1..(Len(req[r].messages) - 1) :
                      req[r].messages[j] = [role |-> "user", content |-> req[q].message]
               /\ Len(TurnRows(q)) = 1
        /\ req[r].pc = "done" =>
               /\ Len(TurnRows(r)) = 2
               /\ TurnRows(r)[1].id > TurnRows(q)[1].id
               /\ RowsAfter(req[r].conversation, TurnRows(r)[1].id) = <<TurnRows(r)[2]>>
               /\ TurnRows(r)[2].role = "assistant"

\* A request that arrived after a failed turn on its conversation has been answered.
C29_Witness ==
    \E r, q \in Requests :
        /\ RetryOf(r, q)
        /\ req[r].pc = "done"
        /\ req[r].messages = <<[role |-> "user", content |-> req[q].message],
                               [role |-> "user", content |-> req[r].message]>>

\* The id of the task an executed call wrote: the one add_task reports, or the
\* task_id argument of the other tools.
Written(e) ==
    IF e.name = "add_task" THEN loads(e.returned).task_id ELSE e.arguments.task_id
\* What the executed call e of user_id wrote is in the tasks table.
Kept(user_id, e) ==
    CASE e.name = "add_task" ->
            \E t \in tasks : /\ t.id = Written(e) /\ t.user_id = user_id
                             /\ t.title = e.arguments.title /\ ~t.completed
      [] e.name = "complete_task" ->
            \E t \in tasks : t.id = Written(e) /\ t.user_id = user_id /\ t.completed
      [] e.name = "delete_task" ->
            \A t \in tasks : t.id # Written(e)
      [] e.name = "update_task" ->
            \E t \in tasks : /\ t.id = Written(e) /\ t.user_id = user_id
                             /\ ("title" \in e.arguments.has => t.title = e.arguments.title)
      [] OTHER -> TRUE

\* C30: when the model call of a later round fails, what the tool calls of the
\* earlier rounds wrote to the task store stays (of each task, the last write of
\* the turn), the failing step itself writes nothing, and the turn ends with
\* status 500, its user message stored and no assistant message.
C30_ToolWritesSurviveFailedTurn ==
    /\ [](\A r \in Requests : (aux[r].cause = "model" /\ aux[r].executed # <<>>) =>
            /\ req[r].pc = "failed"
            /\ req[r].status = 500
            /\ [i \in 1..Len(TurnRows(r)) |-> TurnRows(r)[i].role] = <<"user">>
            /\ \A i \in DOMAIN aux[r].executed :
                   LET e == aux[r].executed[i]
                   IN (/\ e.changed
                       /\ \A j \in (i + 1)..Len(aux[r].executed) :
                              aux[r].executed[j].changed
                                  => Written(aux[r].executed[j]) # Written(e))
                      => Kept(req[r].user_id, e))
    /\ [][\A r \in Requests : (aux[r].cause # "model" /\ aux'[r].cause = "model") =>
            /\ tasks' = tasks
            /\ task_seq' = task_seq
            /\ db_messages' = db_messages]_vars

\* The model call after two tool rounds failed: the first round had created a
\* task and the second had completed it.
C30_Witness ==
    \E r \in Requests :
        /\ req[r].pc = "failed"
        /\ aux[r].cause = "model"
        /\ aux[r].model_calls = 3
        /\ Len(aux[r].executed) = 2
        /\ aux[r].executed[1].name = "add_task" /\ aux[r].executed[1].changed
        /\ aux[r].executed[2].name = "complete_task" /\ aux[r].executed[2].changed
        /\ \E t \in tasks : t.id = 2 /\ t.completed

\* C31: when the arguments of a requested tool call are not JSON, the turn fails
\* at that call with status 500: the calls requested before it have been
\* executed, in order, it and the calls after it are never executed, and the
\* turn has stored its user message and no assistant message.
C31_UnparseableArgumentsFailTheTurn ==
    /\ [](\A r \in Requests : aux[r].cause = "arguments" =>
            LET k == Len(aux[r].executed) + 1
            IN /\ req[r].pc = "failed"
               /\ req[r].status = 500
               /\ k \in DOMAIN aux[r].requested
               /\ ~Parses(aux[r].requested[k].arguments)
               /\ \A i \in 1..(k - 1) :
                      /\ Parses(aux[r].requested[i].arguments)
                      /\ aux[r].executed[i].id = aux[r].requested[i].id
               /\ [i \in 1..Len(TurnRows(r)) |-> TurnRows(r)[i].role] = <<"user">>)
    /\ [][\A r \in Requests : aux[r].cause = "arguments" =>
            /\ aux'[r].executed = aux[r].executed
            /\ aux'[r].model_calls = aux[r].model_calls
            /\ tasks' = tasks
            /\ db_messages' = db_messages]_vars

\* The model requested three calls in one round and garbled the second: the
\* first has created a task, the third, complete_task, has not run.
C31_Witness ==
    \E r \in Requests :
        /\ aux[r].cause = "arguments"
        /\ aux[r].model_calls = 1
        /\ Len(aux[r].requested) = 3
        /\ Len(aux[r].executed) = 1
        /\ aux[r].executed[1].name = "add_task" /\ aux[r].executed[1].changed
        /\ aux[r].requested[3].name = "complete_task"
        /\ \E t \in tasks : t.id = 2
        /\ \A t \in tasks : ~t.completed

\* An entry of a transcript that is a plain user or assistant message: a role
\* and a content, no tool calls and no tool result.
PlainEntry(m) == DOMAIN m = {"role", "content"} /\ m.role \in {"user", "assistant"}

\* C32: every message chat persists has role user or assistant; the assistant
\* entries with tool calls and the tool entries of a turn are in no row, so the
\* first transcript of every turn is the system prompt and then plain user and
\* assistant messages only, also when an earlier turn of the conversation ran tools.
C32_OnlyUserAndAssistantPersisted ==
    /\ \A i \in DOMAIN db_messages : db_messages[i].role \in {"user", "assistant"}
    /\ \A r \in Requests :
        /\ \A j \in DOMAIN req[r].messages : PlainEntry(req[r].messages[j])
        /\ aux[r].sent # <<>> =>
               \A j \in 2..Len(aux[r].sent[1]) : PlainEntry(aux[r].sent[1][j])

\* A turn ran a tool round and was answered; a later turn on its conversation
\* has called the model with the two messages of the first turn and its own.
C32_Witness ==
    \E r, q \in Requests :
        /\ r # q
        /\ req[q].pc = "done"
        /\ Len(req[q].tool_calls_log) = 1
        /\ q \in aux[r].after
        /\ req[r].conversation = req[q].conversation
        /\ aux[r].model_calls >= 1
        /\ Len(aux[r].sent[1]) = 4
        /\ aux[r].sent[1][3] = [role |-> "assistant", content |-> req[q].response]

\* Request r is about to execute complete_task on a task of its user that is
\* completed already.
CompletesAgain(r) ==
    /\ req[r].pc = "tools"
    /\ req'[r] # req[r]
    /\ Parses(Head(req[r].todo).arguments)
    /\ Head(req[r].todo).name = "complete_task"
    /\ "task_id" \in loads(Head(req[r].todo).arguments).has
    /\ IF req[r].session = <<>>
       THEN \E t \in tasks : /\ t.id = loads(Head(req[r].todo).arguments).task_id
                             /\ t.user_id = req[r].user_id
                             /\ t.completed
       ELSE req[r].session[1].dirty = {}

\* C33: through the chat tools the completed flag of a task only goes from false
\* to true: no step sets a completed task back to pending, and complete_task on
\* a completed task succeeds, reports "completed" and leaves the table as it is
\* (no statement of the call writes).
C33_CompletedIsMonotonic ==
    [][/\ \A t \in tasks : t.completed =>
            \A t2 \in tasks' : t2.id = t.id => t2.completed
       /\ \A r \in Requests : CompletesAgain(r) =>
            /\ tasks' = tasks
            /\ req'[r].pc # "failed"
            /\ IF req'[r].session # <<>>
               THEN /\ req'[r].session[1].dirty = {} /\ req'[r].session[1].deleted = {}
                    /\ ~req'[r].session[1].changed
                    /\ loads(req'[r].session[1].result).status = "completed"
               ELSE /\ Last(req'[r].tool_calls_log).tool = "complete_task"
                    /\ Last(req'[r].tool_calls_log).result.status = "completed"
                    /\ Last(aux'[r].executed).raised = FALSE]_vars

\* complete_task has run twice on task 1 and succeeded both times; the task is
\* completed.
C33_Witness ==
    \E r \in Requests :
        /\ Len(aux[r].executed) = 2
        /\ \A i \in 1..2 : /\ aux[r].executed[i].name = "complete_task"
                           /\ aux[r].executed[i].arguments.task_id = 1
                           /\ ~aux[r].executed[i].raised
                           /\ "status" \in DOMAIN loads(aux[r].executed[i].returned)
                           /\ loads(aux[r].executed[i].returned).status = "completed"
        /\ aux[r].executed[1].changed /\ ~aux[r].executed[2].changed
        /\ \E t \in tasks : t.id = 1 /\ t.completed

\* Request r takes the step that executes update_task with arguments that
\* hold a task id.
Updates_task(r) ==
    /\ req[r].pc = "tools"
    /\ req'[r] # req[r]
    /\ Parses(Head(req[r].todo).arguments)
    /\ Head(req[r].todo).name = "update_task"
    /\ "task_id" \in loads(Head(req[r].todo).arguments).has

\* C34: update_task changes, on the one task of the caller with the given id,
\* the title if the arguments hold one and the description if they hold one; an
\* absent field, the completed flag, the owner and the id keep their values, and
\* every other task is unchanged (all tasks, when the caller has no such task).
\* No statement of the call changes anything else; when the call returns, the
\* task has the fields the arguments hold.
C34_UpdateTaskFrame ==
    [][\A r \in Requests : Updates_task(r) =>
         LET a == loads(Head(req[r].todo).arguments)
             returns == Len(req'[r].tool_calls_log) = Len(req[r].tool_calls_log) + 1
         IN /\ \A t \in tasks : (t.id # a.task_id \/ t.user_id # req[r].user_id) => t \in tasks'
            /\ \A t \in tasks : (t.id = a.task_id /\ t.user_id = req[r].user_id) =>
                 \/ tasks' = tasks
                 \/ tasks' = (tasks \ {t}) \cup
                       {[t EXCEPT !.title = IF "title" \in a.has THEN a.title ELSE @,
                                  !.description = IF "description" \in a.has
                                                  THEN a.description ELSE @]}
            /\ \A t \in tasks' : (returns /\ t.id = a.task_id /\ t.user_id = req[r].user_id) =>
                 /\ "title" \in a.has => t.title = a.title
                 /\ "description" \in a.has => t.description = a.description
            /\ Cardinality(tasks') = Cardinality(tasks)
            /\ task_seq' = task_seq]_vars

\* update_task with a description and no title has run on task 1 after it was
\* completed: the task has the new description, its old title "old", and is
\* still completed.
C34_Witness ==
    \E r \in Requests :
        /\ Len(aux[r].executed) = 2
        /\ aux[r].executed[1].name = "complete_task" /\ aux[r].executed[1].changed
        /\ aux[r].executed[2].name = "update_task" /\ aux[r].executed[2].changed
        /\ aux[r].executed[2].arguments.has = {"task_id", "description"}
        /\ \E t \in tasks : /\ t.id = 1 /\ t.title = "old" /\ t.description = "2l"
                            /\ t.completed /\ t.user_id = "u2"

\* The manager holds a task with the id; that task is completed.
Known(m, task_id) == TaskManager_get_task(m, task_id) # 0
IsCompleted(m, task_id) == m.tasks[TaskManager_get_task(m, task_id)].completed

\* C35: in every state of the TodoController, for every task id: toggle_complete
\* applied twice to an existing task succeeds twice and gives back the tasks as
\* they were; mark_complete on a completed task and mark_incomplete on a pending
\* task report failure and change nothing; the three operations on an unknown id
\* report failure and change nothing.  And in every run: after two successive
\* successful toggle_complete calls on one id the tasks are those before the first.
C35_ToggleAndMarkComplete ==
    /\ \A task_id \in ManagerIds :
        LET once == TodoController_toggle_complete(manager, task_id)
            twice == TodoController_toggle_complete(once.m, task_id)
            mc == TodoController_mark_complete(manager, task_id)
            mi == TodoController_mark_incomplete(manager, task_id)
        IN IF Known(manager, task_id)
           THEN /\ once.success /\ twice.success
                /\ IsCompleted(once.m, task_id) = ~IsCompleted(manager, task_id)
                /\ twice.m.tasks = manager.tasks
                /\ IsCompleted(manager, task_id) => (~mc.success /\ mc.m = manager)
                /\ ~IsCompleted(manager, task_id) => (~mi.success /\ mi.m = manager)
           ELSE /\ ~once.success /\ once.m = manager
                /\ ~mc.success /\ mc.m = manager
                /\ ~mi.success /\ mi.m = manager
    /\ (/\ Len(outcome) = 2
        /\ \A k \in 1..2 : outcome[k].op = "toggle_complete" /\ outcome[k].success
        /\ outcome[1].task_id = outcome[2].task_id)
       => manager.tasks = outcome[1].before
    /\ \A k \in DOMAIN outcome :
        (/\ k = Len(outcome)
         /\ outcome[k].op \in {"toggle_complete", "mark_complete", "mark_incomplete"}
         /\ ~outcome[k].success)
        => manager.tasks = outcome[k].before

\* toggle_complete has run twice on task 1, which was completed when the first
\* call was made, among two tasks; it is completed again.
C35_Witness ==
    /\ Len(outcome) = 2
    /\ \A k \in 1..2 : /\ outcome[k].op = "toggle_complete" /\ outcome[k].success
                       /\ outcome[k].task_id = 1
    /\ Len(manager.tasks) = 2
    /\ IsCompleted(manager, 1)
    /\ outcome[2].before # manager.tasks

\* C36: auto-creation of the user record is safe under concurrency: of two first
\* chat requests of one new user, whatever their interleaving, neither fails
\* because of the other: no request fails at the insert of the user record.
C36_UserAutoCreateIsSafe ==
    \A r \in Requests :
        req[r].op = "chat" => ~(req[r].pc = "failed" /\ aux[r].cause = "user")

=============================================================================
